---------------------------- MODULE Spec2Model ----------------------------
(***************************************************************************)
(* A model of the glauber crate: the atomic read/write-lockable cell       *)
(* (atomic_rw.rs), the compact graph (graph.rs), the greedy seed colouring,*)
(* the discrete viable-set sampler and the parallel Glauber sampling       *)
(* engine with its snapshot logger (color.rs).                             *)
(*                                                                         *)
(* Every atomic operation on a shared word is one step of the thread that  *)
(* performs it; thread-local work between two atomic operations is folded  *)
(* into the step of the atomic operation that precedes or follows it.      *)
(***************************************************************************)
EXTENDS Integers, Sequences, FiniteSets, TLC

(***************************************************************************)
(* Bounds of the model.                                                    *)
(***************************************************************************)
\* Width of the reader-count field of a cell (31 in the source, scaled).
ReadBits == 2
\* Width of the payload field of a cell (32 in the source, scaled).
PayloadBits == 2
\* Number of sampler states / workers of the pool (rayon::current_num_threads).
NWorkers == 2
\* Largest colour budget, total sample count and snapshot frequency tried.
MaxColors == 3
MaxSamples == 3
MaxFrequency == 2
\* Largest total sample count tried under fair scheduling.
MaxFairSamples == 2
\* Largest total sample count tried on the star of three leaves.
MaxStarSamples == 2
\* The two output files and the two histories of the logger keep this many
\* lines, and its clock stops counting at this many ticks (more than a run
\* that advances by at least one sample a round can produce).
MaxLines == 5
MaxSeconds == 4
\* The conflict counters stop counting here (they are statistics only).
MaxConflicts == 2
\* Threads exercising the single cell of CellSpec.
NThreads == 3
\* Largest number of vertices of the graphs given to greedy and Graph::new
\* (their colours stay below NO_COLOR).
MaxVertices == 3
\* Shards given to read, and the pairs they hold in all.
NShards == 2
MaxPairs == 3
\* Largest length of the neighbour array given to Graph::new on its own.
MaxSlots == 4

Pow2(n) == 2 ^ n

Min(a, b) == IF a <= b THEN a ELSE b

(***************************************************************************)
(* atomic_rw.rs: the backing word                                          *)
(*   |--- payload ---|W|--- read count ---|                                *)
(***************************************************************************)
WRITE_BIT_MASK == Pow2(ReadBits)
READ_SEM_MASK == Pow2(ReadBits) - 1
\* The shift of the payload: the write bit and the read count lie below it.
PayloadShift == ReadBits + 1
\* Atomic adds and subtracts wrap at the width of the backing word.
WordMod == Pow2(PayloadShift + PayloadBits)
\* The largest payload value (std::u32::MAX).
U32_MAX == Pow2(PayloadBits) - 1

to_payload(v) == v * Pow2(PayloadShift)

from_payload(x) == (x \div Pow2(PayloadShift)) % Pow2(PayloadBits)

\* inner & READ_SEM_MASK  and  inner & WRITE_BIT_MASK
ReadSem(x) == x % WRITE_BIT_MASK
WriteBit(x) == (x \div WRITE_BIT_MASK) % 2

\* State::from
StateFrom(x) ==
    IF ReadSem(x) > 0
    THEN (IF WriteBit(x) > 0 THEN "RlockedWlocked" ELSE "RlockedWunlocked")
    ELSE (IF WriteBit(x) > 0 THEN "RunlockedWlocked" ELSE "RunlockedWunlocked")

\* The new value of the word after each atomic read-modify-write.
fetch_or_write_bit(x) == IF WriteBit(x) > 0 THEN x ELSE x + WRITE_BIT_MASK
\* An undo that leaves the write bit in place.
fetch_and_nothing(x) == x

fetch_and_not_write_bit(x) == IF WriteBit(x) > 0 THEN x - WRITE_BIT_MASK ELSE x
fetch_add(x, d) == (x + d) % WordMod
\* A subtraction that leaves the word as it is.
fetch_sub_nothing(x, d) == x

fetch_sub(x, d) == (x - d) % WordMod

\* A cell that starts with payload 0 whatever it is given.
Rwu32_new_zero(init) == to_payload(0)

\* Rwu32::new
Rwu32_new(init) == to_payload(init)

\* WriteGuard::from
WriteGuard_from(value) == [previous |-> value, current |-> value]

\* A drop that clears the write bit and forgets the value written.
WriteGuard_drop_flag_only(x, g) == fetch_sub(x, WRITE_BIT_MASK)

\* WriteGuard::drop: the new value of the word.
WriteGuard_drop(x, g) ==
    IF g.current > g.previous
    THEN fetch_add(x, to_payload(g.current - g.previous) - WRITE_BIT_MASK)
    ELSE fetch_sub(x, to_payload(g.previous - g.current) + WRITE_BIT_MASK)

\* The debug assertions of WriteGuard::drop on the value fetched.
WriteGuard_drop_asserts(x, g) ==
    /\ WriteBit(x) > 0
    /\ from_payload(x) = g.previous
    /\ (g.current > g.previous =>
            to_payload(g.current - g.previous) > WRITE_BIT_MASK)

\* ReadGuard::drop and the undo of try_read_lock: the debug assertion.
ReadGuard_drop_asserts(x) == ReadSem(x) > 0

\* An unwrap that is fatal only when the cell is locked for writing.
into_inner_unless_writer(x) ==
    IF WriteBit(x) = 0
    THEN [panic |-> FALSE, value |-> from_payload(x)]
    ELSE [panic |-> TRUE, value |-> 0]

\* Rwu32::into_inner: the payload, or a panic when the cell is locked.
into_inner(x) ==
    IF StateFrom(x) = "RunlockedWunlocked"
    THEN [panic |-> FALSE, value |-> from_payload(x)]
    ELSE [panic |-> TRUE, value |-> 0]

\* Rwu32::mut_read (used by the logger): the payload of an exclusively
\* borrowed cell.
mut_read(x) == from_payload(x)

(***************************************************************************)
(* graph.rs: the compact graph.  Vertices are 0 .. nvertices-1; offsets    *)
(* and neighbors are the two vectors of the source, held as sequences      *)
(* (position k of a vector is element k+1 of the sequence).                *)
(***************************************************************************)
nvertices(g) == Len(g.offsets) - 1

neighbors(g, v) == SubSeq(g.neighbors, g.offsets[v + 1] + 1, g.offsets[v + 2])

degree(g, v) == g.offsets[v + 2] - g.offsets[v + 1]

Vertices(g) == 0 .. (nvertices(g) - 1)

\* The graphs of the model: a path 0-1-2, a triangle, and an edge 0-1 with
\* the isolated vertex 2.
PathGraph == [offsets |-> <<0, 1, 3, 4>>, neighbors |-> <<1, 0, 2, 1>>]
TriangleGraph == [offsets |-> <<0, 2, 4, 6>>, neighbors |-> <<1, 2, 0, 2, 0, 1>>]
IsolatedGraph == [offsets |-> <<0, 1, 2, 2>>, neighbors |-> <<1, 0>>]
Graphs == {PathGraph, TriangleGraph, IsolatedGraph}

(***************************************************************************)
(* color.rs: DiscreteSampler.  alive_set and dead_set are sequences,       *)
(* index and alive are functions on the domain 0 .. n-1.                   *)
(***************************************************************************)
DiscreteSampler_new(n) ==
    [alive_set |-> [k \in 1 .. n |-> k - 1],
     dead_set |-> << >>,
     index |-> [i \in 0 .. (n - 1) |-> i],
     alive |-> [i \in 0 .. (n - 1) |-> TRUE]]

\* A removal of the last element whatever ix is.
pop_last(s, ix) == SubSeq(s, 1, Len(s) - 1)

\* Vec::swap_remove(ix): the element at ix is replaced by the last one.
swap_remove(s, ix) ==
    LET n == Len(s)
    IN  IF ix + 1 = n
        THEN SubSeq(s, 1, n - 1)
        ELSE [SubSeq(s, 1, n - 1) EXCEPT ![ix + 1] = s[n]]

\* A remove that excludes nothing.
DiscreteSampler_remove_nothing(s, i) == s

DiscreteSampler_remove(s, i) ==
    IF ~s.alive[i]
    THEN s
    ELSE LET ix == s.index[i]
             last == s.alive_set[Len(s.alive_set)]
             index1 == [s.index EXCEPT ![last] = ix]
         IN  [alive_set |-> swap_remove(s.alive_set, ix),
              dead_set |-> Append(s.dead_set, i),
              index |-> [index1 EXCEPT ![i] = U32_MAX],
              alive |-> [s.alive EXCEPT ![i] = FALSE]]

\* assert!(ii == i) of remove: the element swapped out is the one removed.
DiscreteSampler_remove_assert(s, i) ==
    s.alive[i] =>
        /\ s.index[i] < Len(s.alive_set)
        /\ s.alive_set[s.index[i] + 1] = i

RECURSIVE DiscreteSampler_drain(_, _)
DiscreteSampler_drain(s, k) ==
    IF k > Len(s.dead_set)
    THEN [s EXCEPT !.dead_set = << >>]
    ELSE LET i == s.dead_set[k]
         IN  DiscreteSampler_drain(
                 [s EXCEPT !.index = [s.index EXCEPT ![i] = Len(s.alive_set)],
                           !.alive_set = Append(s.alive_set, i),
                           !.alive = [s.alive EXCEPT ![i] = TRUE]],
                 k + 1)

\* A reset that revives nothing.
DiscreteSampler_reset_nothing(s) == s

DiscreteSampler_reset(s) == DiscreteSampler_drain(s, 1)

\* sample draws an index in 0 .. len-1: the set of values it can return.
DiscreteSampler_sample(s) == {s.alive_set[k] : k \in 1 .. Len(s.alive_set)}

\* An alive count that is 1 whatever is alive.
DiscreteSampler_nalive_one(s) == 1

DiscreteSampler_nalive(s) == Len(s.alive_set)

(***************************************************************************)
(* color.rs: greedy.                                                       *)
(***************************************************************************)
NO_COLOR == U32_MAX

\* The orders sort_unstable_by_key(degree) can leave the vertices in:
\* ascending by degree, ties in any order.
SortedByDegree(g) ==
    {o \in [1 .. nvertices(g) -> Vertices(g)] :
        /\ \A a, b \in 1 .. nvertices(g) : a # b => o[a] # o[b]
        /\ \A a, b \in 1 .. nvertices(g) :
               a < b => degree(g, o[a]) <= degree(g, o[b])}

\* The scan of the neighbours of a vertex: marks the colours of the coloured
\* neighbours in adjacent_colors and counts them.  k is the position of the
\* next neighbour, st = [adj, nadj].
RECURSIVE greedy_scan(_, _, _, _)
greedy_scan(colors, nbrs, k, st) ==
    IF k > Len(nbrs)
    THEN st
    ELSE LET n == nbrs[k]
         IN  IF colors[n + 1] = NO_COLOR
             THEN greedy_scan(colors, nbrs, k + 1, st)
             ELSE LET c == colors[n + 1]
                  IN  IF ~st.adj[c + 1]
                      THEN LET st1 == [adj |-> [st.adj EXCEPT ![c + 1] = TRUE],
                                       nadj |-> st.nadj + 1]
                           IN  IF st1.nadj = Len(colors)
                               THEN st1
                               ELSE greedy_scan(colors, nbrs, k + 1, st1)
                      ELSE greedy_scan(colors, nbrs, k + 1, st)

\* A choice of colour 0 whatever the marks are.
first_color(adj) == 0

\* position(|x| !x): the smallest unmarked colour.
first_unmarked(adj) ==
    CHOOSE c \in 0 .. (Len(adj) - 1) :
        /\ ~adj[c + 1]
        /\ \A d \in 0 .. (c - 1) : adj[d + 1]

\* The reset of the scratch marks after a vertex is coloured.
greedy_unmark(g, vertex, colors, adj) ==
    IF degree(g, vertex) >= Len(adj)
    THEN LET nbrs == neighbors(g, vertex)
             cs == {colors[nbrs[k] + 1] : k \in 1 .. Len(nbrs)} \ {NO_COLOR}
         IN  [c \in 1 .. Len(adj) |-> IF (c - 1) \in cs THEN FALSE ELSE adj[c]]
    ELSE [c \in 1 .. Len(adj) |-> FALSE]

\* An iteration that gives every vertex a colour of its own.
greedy_step_always_grows(g, vertex, colors, adj) ==
    LET adj1 == Append(adj, FALSE)
        colors1 == [colors EXCEPT ![vertex + 1] = Len(adj1) - 1]
    IN  [colors |-> colors1, adj |-> greedy_unmark(g, vertex, colors1, adj1)]

\* An iteration that does not look at the neighbours of the vertex.
greedy_step_no_scan(g, vertex, colors, adj) ==
    LET grow == 0 = Len(adj)
        adj1 == IF grow THEN Append(adj, FALSE) ELSE adj
        chosen == IF grow THEN Len(adj1) - 1 ELSE first_unmarked(adj1)
        colors1 == [colors EXCEPT ![vertex + 1] = chosen]
    IN  [colors |-> colors1, adj |-> greedy_unmark(g, vertex, colors1, adj1)]

\* One iteration of the main loop, for the vertex `vertex`.
greedy_step(g, vertex, colors, adj) ==
    LET st == greedy_scan(colors, neighbors(g, vertex), 1,
                          [adj |-> adj, nadj |-> 0])
        grow == st.nadj = Len(st.adj)
        adj1 == IF grow THEN Append(st.adj, FALSE) ELSE st.adj
        chosen == IF grow THEN Len(adj1) - 1 ELSE first_unmarked(adj1)
        colors1 == [colors EXCEPT ![vertex + 1] = chosen]
    IN  [colors |-> colors1, adj |-> greedy_unmark(g, vertex, colors1, adj1)]

\* The main loop over the vertices in reverse of the sorted order: k is the
\* position in `order` of the next vertex, from the last down to the first.
RECURSIVE greedy_loop(_, _, _, _, _)
greedy_loop(g, order, k, colors, adj) ==
    IF k = 0
    THEN [ncolors |-> Len(adj), colors |-> colors]
    ELSE LET r == greedy_step(g, order[k], colors, adj)
         IN  greedy_loop(g, order, k - 1, r.colors, r.adj)

\* greedy, for one outcome `order` of the sort.
greedy(g, order) ==
    greedy_loop(g, order, nvertices(g),
                [v \in 1 .. nvertices(g) |-> NO_COLOR], << >>)

(***************************************************************************)
(* The state.                                                              *)
(***************************************************************************)
VARIABLES
    graph,          \* the graph of the run
    ncolors,        \* the colour budget
    nsamples,       \* the total sample count
    frequency,      \* samples between snapshots
    seed,           \* the result of greedy: [ncolors, colors]
    nthreads,       \* the number of threads of the pool
    mainpc,         \* where glauber's own thread is
    colors,         \* the cells, one word per vertex
    logger,         \* the GlauberLogger, with the lines of its two files
    conflicts,      \* glauber's conflict counter
    samples_left_this_round,    \* the shared countdown
    samples_to_sample,          \* the size of the current round
    workers,        \* the state of each worker of the pool
    accepted,       \* history: the number of successful update attempts
    asserts_ok,     \* history: no debug assertion has failed
    returned,       \* the colouring glauber returns
    cell,           \* CellSpec: the word of the one cell
    threads,        \* CellSpec: what each thread holds or is in the middle of
    committed,      \* CellSpec: history, the last value written under a guard
                    \* and the payload it replaced
    unwrapped,      \* CellSpec: the result of into_inner, once called
    greedy_run,     \* GreedySpec: the locals of greedy
    shards,         \* ReadSpec: the input, one sequence of pairs per shard
    scan,           \* ReadSpec: where each shard's thread is in its pass
    atomic_offsets, \* ReadSpec: the shared counters, then cursors
    offsets,        \* ReadSpec: the offsets vector after the prefix sum
    atomic_edges,   \* ReadSpec: the shared flat neighbour array
    stores,         \* ReadSpec: history, the number of stores to each slot
    edges,          \* ReadSpec: the flat neighbour array handed to Graph::new
    debug,          \* ReadSpec: the build has debug assertions
    sampler,        \* SamplerSpec: the DiscreteSampler
    removed,        \* SamplerSpec: history, the elements removed since reset
    drawn           \* SamplerSpec: history, what the last call did

runVars == <<graph, ncolors, nsamples, frequency, seed, nthreads>>
engineVars == <<mainpc, colors, logger, conflicts, samples_left_this_round,
                samples_to_sample, workers, accepted, asserts_ok, returned>>
cellVars == <<cell, threads, committed, unwrapped>>
readVars == <<shards, scan, atomic_offsets, offsets, atomic_edges, stores,
              edges, debug>>
samplerVars == <<sampler, removed, drawn>>
unitVars == <<greedy_run, readVars, samplerVars>>
vars == <<runVars, engineVars, cellVars, unitVars>>

\* greedy, read and the stand-alone sampler are not running.
GreedyIdle == greedy_run = << >>
ReadIdle ==
    /\ shards = << >>
    /\ scan = << >>
    /\ atomic_offsets = << >>
    /\ offsets = << >>
    /\ atomic_edges = << >>
    /\ stores = << >>
    /\ edges = << >>
    /\ debug = FALSE
SamplerIdle ==
    /\ sampler = << >>
    /\ removed = {}
    /\ drawn = << >>
UnitIdle == GreedyIdle /\ ReadIdle /\ SamplerIdle

\* The thread states: one per thread of the pool.
Workers == 1 .. nthreads

(***************************************************************************)
(* color.rs: GlauberLogger.  elapsed_seconds counts clock ticks; created   *)
(* tells that File::create has made the two output files.                  *)
(***************************************************************************)
GlauberLogger_new ==
    [steps |-> 0, elapsed_seconds |-> 0, start_time |-> "None",
     time_file |-> << >>, color_file |-> << >>,
     steps_history |-> << >>, times_history |-> << >>, created |-> TRUE]

\* Before GlauberLogger::new: no logger and no output file.
NoLogger == [GlauberLogger_new EXCEPT !.created = FALSE]

\* writeln! and push: one more line, up to the lines the model keeps.
push(lines, x) == IF Len(lines) < MaxLines THEN Append(lines, x) ELSE lines

GlauberLogger_start(lg) == [lg EXCEPT !.start_time = "Some"]

GlauberLogger_stop(lg, samples, delta_seconds) ==
    [lg EXCEPT !.elapsed_seconds =
                   Min(lg.elapsed_seconds + delta_seconds, MaxSeconds),
               !.steps = lg.steps + samples,
               !.start_time = "None"]

\* A log that writes the colour file and leaves the timing file alone.
GlauberLogger_log_colors_only(lg, cells) ==
    [lg EXCEPT !.color_file =
                   push(lg.color_file,
                          [steps |-> lg.steps,
                           colors |-> [v \in DOMAIN cells |-> mut_read(cells[v])]]),
               !.steps_history = push(lg.steps_history, lg.steps)]

\* One line of the colour file: the step count, then every cell's colour.
GlauberLogger_log(lg, cells) ==
    [lg EXCEPT !.color_file =
                   push(lg.color_file,
                          [steps |-> lg.steps,
                           colors |-> [v \in DOMAIN cells |-> mut_read(cells[v])]]),
               !.steps_history = push(lg.steps_history, lg.steps),
               !.time_file = push(lg.time_file, lg.elapsed_seconds),
               !.times_history = push(lg.times_history, lg.elapsed_seconds)]

(***************************************************************************)
(* color.rs: the workers of glauber and try_mcmc_update.                   *)
(*   pc "idle"        no round is running                                  *)
(*      "claim"       at the fetch_sub of the countdown                    *)
(*      "attempt"     at the start of try_mcmc_update                      *)
(*      "write_undo"  try_write_lock: between the fetch_or and its undo    *)
(*      "read_lock"   at the try_read_lock of neighbour k of v             *)
(*      "read_undo"   try_read_lock: between the fetch_add and its undo    *)
(*      "release"     try_mcmc_update has returned: the guards are dropped *)
(*      "done"        the countdown is exhausted                           *)
(* History fields of a worker: unit (the countdown value it claimed),      *)
(* sampled (the attempt reached the sampling step), in_call and lock_ops   *)
(* (a lock call is in flight; the atomic operations of the latest call).   *)
(***************************************************************************)
NoGuard == [previous |-> 0, current |-> 0]

IdleWorker(viable) ==
    [pc |-> "idle", unit |-> 0, v |-> 0, k |-> 0,
     holds_write |-> FALSE, guard |-> NoGuard,
     neighbor_guards |-> << >>, releases |-> << >>,
     viable_colors |-> viable,
     conflicts |-> 0, successful |-> FALSE, sampled |-> FALSE,
     in_call |-> FALSE, lock_ops |-> 0]

\* A thread state whose viable set has one colour more than the budget.
SamplerThreadState_new_wider(nc) == IdleWorker(DiscreteSampler_new(nc + 1))

\* SamplerThreadState::new
SamplerThreadState_new(nc) == IdleWorker(DiscreteSampler_new(nc))

\* conflicts += 1, up to the bound of the model.
count_conflict(c) == IF c < MaxConflicts THEN c + 1 ELSE c

add_conflicts(c, d) == Min(c + d, MaxConflicts)

\* The countdown after one worker's fetch_sub(1).
countdown_fetch_sub(prev) == prev - 1

\* A write lock that looks at the write bit only.
try_write_lock_ignores_readers(prev) ==
    IF WriteBit(prev) > 0 THEN "none" ELSE "guard"

\* A write lock that is never granted.
try_write_lock_gives_up(prev) == "none"

\* The match of try_write_lock on the value fetched: no lock, no lock after
\* removing the write bit again, or a write guard.
try_write_lock_outcome(prev) ==
    LET st == StateFrom(prev)
    IN  IF st \in {"RunlockedWlocked", "RlockedWlocked"} THEN "none"
        ELSE IF st = "RlockedWunlocked" THEN "undo"
        ELSE "guard"

\* A read lock that is refused whatever the word fetched.
try_read_lock_refuses(prev) == "undo"

\* A read lock that is granted whatever the write bit.
try_read_lock_ignores_writer(prev) == "guard"

\* The match of try_read_lock on the value fetched: no lock after undoing
\* the count-up, or a read guard.
try_read_lock_outcome(prev) ==
    LET st == StateFrom(prev)
    IN  IF st \in {"RunlockedWlocked", "RlockedWlocked"} THEN "undo"
        ELSE "guard"

\* The retry loop after try_mcmc_update has returned and neighbor_guards is
\* cleared: a success ends the unit, a failure counts a conflict and retries.
after_attempt(wr) ==
    LET r == [wr EXCEPT !.v = 0, !.k = 0, !.guard = NoGuard,
                        !.successful = FALSE, !.sampled = FALSE,
                        !.in_call = FALSE, !.lock_ops = 0]
    IN  IF wr.successful
        THEN [r EXCEPT !.pc = "claim", !.unit = 0]
        ELSE [r EXCEPT !.pc = "attempt",
                       !.conflicts = count_conflict(wr.conflicts)]

\* The neighbour guards dropped before the write guard.
release_order_reads_first(wr) ==
    [i \in 1 .. Len(wr.neighbor_guards) |-> "read"]
        \o (IF wr.holds_write THEN <<"write">> ELSE << >>)

\* The order in which the guards are dropped once try_mcmc_update returns:
\* v_color_guard at the return, the neighbour guards at the caller's clear().
release_order(wr) ==
    (IF wr.holds_write THEN <<"write">> ELSE << >>)
        \o [i \in 1 .. Len(wr.neighbor_guards) |-> "read"]

\* try_mcmc_update returns Some(()) (ok) or None.
update_returns(wr, ok) ==
    LET r == [wr EXCEPT !.successful = ok, !.in_call = FALSE,
                        !.releases = release_order(wr)]
    IN  IF r.releases = << >> THEN after_attempt(r) ELSE [r EXCEPT !.pc = "release"]

\* A read lock that is called again on the same cell until it is granted.
read_lock_waits(wr) == [wr EXCEPT !.pc = "read_lock", !.in_call = FALSE]

\* A read lock that is tried again on the same cell instead of failing.
read_lock_spins(wr) == [wr EXCEPT !.pc = "read_lock"]

\* A failed read lock after which the retry starts with every guard kept.
read_lock_leaks(wr) ==
    after_attempt([wr EXCEPT !.successful = FALSE, !.in_call = FALSE])

\* colors[w].try_read_lock()? on a cell a writer owns: None is returned.
read_lock_failed(wr) == update_returns(wr, FALSE)

\* The end of the neighbour loop of try_mcmc_update: the colour is sampled
\* and buffered in the write guard; `chosen` is the colour drawn.
sample_and_write(wr, chosen) ==
    update_returns([wr EXCEPT !.guard = [wr.guard EXCEPT !.current = chosen],
                              !.sampled = TRUE],
                   TRUE)

\* One more atomic operation of a lock call: of the call in flight, or the
\* first of a new call.
count_op(wr) ==
    [wr EXCEPT !.lock_ops = IF wr.in_call THEN wr.lock_ops + 1 ELSE 1,
               !.in_call = TRUE]

\* History: the step ends a successful attempt.
Accepts(before, after) ==
    IF before.pc # "claim" /\ after.pc = "claim" THEN 1 ELSE 0

\* while samples_left_this_round.fetch_sub(1) > 0
Claim(w) ==
    /\ mainpc = "round"
    /\ workers[w].pc = "claim"
    /\ LET prev == samples_left_this_round
       IN  /\ samples_left_this_round' = countdown_fetch_sub(prev)
           /\ workers' = [workers EXCEPT ![w] =
                  IF prev > 0
                  THEN [@ EXCEPT !.pc = "attempt", !.unit = prev]
                  ELSE [@ EXCEPT !.pc = "done"]]
    /\ UNCHANGED <<runVars, unitVars, cellVars, mainpc, colors, logger, conflicts,
                   samples_to_sample, accepted, asserts_ok, returned>>

\* The states of the worker after the fetch_or of try_write_lock on v has
\* fetched prev, with the rest of try_mcmc_update up to its next atomic
\* operation.
after_try_write_lock(wr0, v, prev) ==
    LET wr == count_op([wr0 EXCEPT
                           !.viable_colors = DiscreteSampler_reset(@),
                           !.v = v])
        out == try_write_lock_outcome(prev)
        held == [wr EXCEPT !.holds_write = TRUE, !.in_call = FALSE,
                           !.guard = WriteGuard_from(from_payload(prev))]
    IN  IF out = "none" THEN {update_returns(wr, FALSE)}
        ELSE IF out = "undo" THEN {[wr EXCEPT !.pc = "write_undo"]}
        ELSE IF degree(graph, v) = 0
        THEN {sample_and_write(held, chosen) :
                 chosen \in DiscreteSampler_sample(held.viable_colors)}
        ELSE {[held EXCEPT !.pc = "read_lock", !.k = 1]}

\* try_mcmc_update up to the fetch_or of try_write_lock on the vertex drawn.
TryWriteLock(w) ==
    /\ workers[w].pc = "attempt"
    /\ \E v \in Vertices(graph) :
         /\ colors' = [colors EXCEPT ![v] = fetch_or_write_bit(@)]
         /\ \E r \in after_try_write_lock(workers[w], v, colors[v]) :
                workers' = [workers EXCEPT ![w] = r]
    /\ asserts_ok' = (asserts_ok /\ workers[w].neighbor_guards = << >>)
    /\ UNCHANGED <<runVars, unitVars, cellVars, mainpc, logger, conflicts,
                   samples_left_this_round, samples_to_sample, accepted,
                   returned>>

\* try_write_lock, State::RlockedWunlocked: the fetch_and that removes the
\* write bit; None is returned and the attempt has failed.
WriteUndo(w) ==
    /\ workers[w].pc = "write_undo"
    /\ colors' = [colors EXCEPT ![workers[w].v] = fetch_and_not_write_bit(@)]
    /\ workers' = [workers EXCEPT ![w] = update_returns(count_op(@), FALSE)]
    /\ UNCHANGED <<runVars, unitVars, cellVars, mainpc, logger, conflicts,
                   samples_left_this_round, samples_to_sample, accepted,
                   asserts_ok, returned>>

\* The states of the worker after the fetch_add of try_read_lock on
\* neighbour n (the k-th of v) has fetched prev, with the rest of the loop
\* body up to the next atomic operation.
after_try_read_lock(wr0, n, prev) ==
    LET wr == count_op(wr0)
        c == from_payload(prev)
        viable == DiscreteSampler_remove(wr.viable_colors, c)
        got == [wr EXCEPT !.in_call = FALSE,
                          !.neighbor_guards = Append(@, n),
                          !.viable_colors = viable]
    IN  IF try_read_lock_outcome(prev) = "undo"
        THEN {[wr EXCEPT !.pc = "read_undo"]}
        ELSE IF DiscreteSampler_nalive(viable) = 1
        THEN {update_returns(got, TRUE)}
        ELSE IF wr.k < degree(graph, wr.v)
        THEN {[got EXCEPT !.k = wr.k + 1]}
        ELSE {sample_and_write(got, chosen) :
                 chosen \in DiscreteSampler_sample(viable)}

\* The fetch_add of try_read_lock on neighbour k of v.
TryReadLock(w) ==
    /\ workers[w].pc = "read_lock"
    /\ LET wr == workers[w]
           n == neighbors(graph, wr.v)[wr.k]
           prev == colors[n]
       IN  /\ colors' = [colors EXCEPT ![n] = fetch_add(prev, 1)]
           /\ \E r \in after_try_read_lock(wr, n, prev) :
                  workers' = [workers EXCEPT ![w] = r]
           /\ asserts_ok' =
                  (asserts_ok /\
                   (try_read_lock_outcome(prev) = "guard" =>
                        DiscreteSampler_remove_assert(wr.viable_colors,
                                                       from_payload(prev))))
    /\ UNCHANGED <<runVars, unitVars, cellVars, mainpc, logger, conflicts,
                   samples_left_this_round, samples_to_sample, accepted,
                   returned>>

\* try_read_lock, a writer owns the cell: the fetch_sub that undoes the
\* count-up; None is returned and try_mcmc_update returns None.
ReadUndo(w) ==
    /\ workers[w].pc = "read_undo"
    /\ LET wr == workers[w]
           n == neighbors(graph, wr.v)[wr.k]
       IN  /\ colors' = [colors EXCEPT ![n] = fetch_sub(@, 1)]
           /\ asserts_ok' = (asserts_ok /\ ReadGuard_drop_asserts(colors[n]))
           /\ workers' = [workers EXCEPT ![w] = read_lock_failed(count_op(wr))]
    /\ UNCHANGED <<runVars, unitVars, cellVars, mainpc, logger, conflicts,
                   samples_left_this_round, samples_to_sample, accepted,
                   returned>>

\* The worker after one of its guards is dropped.
after_release(wr) ==
    IF wr.releases = << >> THEN after_attempt(wr) ELSE wr

\* WriteGuard::drop of v_color_guard.
DropWrite(w) ==
    /\ workers[w].pc = "release"
    /\ Head(workers[w].releases) = "write"
    /\ LET wr == workers[w]
           r == after_release([wr EXCEPT !.releases = Tail(@),
                                         !.holds_write = FALSE])
       IN  /\ colors' = [colors EXCEPT ![wr.v] = WriteGuard_drop(@, wr.guard)]
           /\ asserts_ok' =
                  (asserts_ok /\ WriteGuard_drop_asserts(colors[wr.v], wr.guard))
           /\ workers' = [workers EXCEPT ![w] = r]
           /\ accepted' = accepted + Accepts(wr, r)
    /\ UNCHANGED <<runVars, unitVars, cellVars, mainpc, logger, conflicts,
                   samples_left_this_round, samples_to_sample, returned>>

\* ReadGuard::drop of the first guard left in neighbor_guards.
DropRead(w) ==
    /\ workers[w].pc = "release"
    /\ Head(workers[w].releases) = "read"
    /\ LET wr == workers[w]
           n == Head(wr.neighbor_guards)
           r == after_release([wr EXCEPT !.releases = Tail(@),
                                         !.neighbor_guards = Tail(@)])
       IN  /\ colors' = [colors EXCEPT ![n] = fetch_sub(@, 1)]
           /\ asserts_ok' = (asserts_ok /\ ReadGuard_drop_asserts(colors[n]))
           /\ workers' = [workers EXCEPT ![w] = r]
           /\ accepted' = accepted + Accepts(wr, r)
    /\ UNCHANGED <<runVars, unitVars, cellVars, mainpc, logger, conflicts,
                   samples_left_this_round, samples_to_sample, returned>>

WorkerStep(w) ==
    \/ Claim(w)
    \/ TryWriteLock(w)
    \/ WriteUndo(w)
    \/ TryReadLock(w)
    \/ ReadUndo(w)
    \/ DropWrite(w)
    \/ DropRead(w)

(***************************************************************************)
(* color.rs: glauber's own thread.                                         *)
(*   mainpc "start"     glauber is called                                  *)
(*          "loop"      at the test of the round loop                      *)
(*          "round"     the pool runs a round                              *)
(*          "returned"  glauber has returned the colouring                 *)
(*          "panic"     an assertion of glauber or into_inner was fatal    *)
(***************************************************************************)
RECURSIVE SumConflicts(_)
SumConflicts(n) == IF n = 0 THEN 0 ELSE workers[n].conflicts + SumConflicts(n - 1)

\* A round of the full frequency whatever is left of the run.
round_size_whole(freq, total, steps) == freq

\* frequency.min(nsamples - logger.steps)
round_size(freq, total, steps) == Min(freq, total - steps)

\* A map that returns as soon as one thread state is done.
AnyJoined == \E w \in Workers : workers[w].pc = "done"

\* The parallel map has returned for every thread state.
AllJoined == \A w \in Workers : workers[w].pc = "done"

\* A budget assertion that accepts every budget.
budget_assert_skipped(greedy_ncolors, budget) == TRUE

\* assert!(greedy_ncolors <= ncolors)
budget_assert(greedy_ncolors, budget) == greedy_ncolors <= budget

\* greedy, the budget assertion, the cells, the logger's first line and the
\* thread states.
Start ==
    /\ mainpc = "start"
    /\ IF budget_assert(seed.ncolors, ncolors)
       THEN LET cells == [v \in Vertices(graph) |-> Rwu32_new(seed.colors[v + 1])]
            IN  /\ colors' = cells
                /\ logger' = GlauberLogger_log(GlauberLogger_new, cells)
                /\ workers' = [w \in Workers |-> SamplerThreadState_new(ncolors)]
                /\ mainpc' = "loop"
       ELSE /\ mainpc' = "panic"
            /\ UNCHANGED <<colors, logger, workers>>
    /\ UNCHANGED <<runVars, unitVars, cellVars, conflicts, samples_left_this_round,
                   samples_to_sample, accepted, asserts_ok, returned>>

\* The head of the round loop: the countdown is set and the pool is started.
RoundStart ==
    /\ mainpc = "loop"
    /\ logger.steps < nsamples
    /\ LET size == round_size(frequency, nsamples, logger.steps)
       IN  /\ samples_to_sample' = size
           /\ samples_left_this_round' = size
    /\ asserts_ok' = (asserts_ok /\ logger.start_time = "None")
    /\ logger' = GlauberLogger_start(logger)
    /\ workers' = [w \in Workers |->
                      [workers[w] EXCEPT !.pc = "claim", !.conflicts = 0]]
    /\ mainpc' = "round"
    /\ UNCHANGED <<runVars, unitVars, cellVars, colors, conflicts, accepted, returned>>

\* The end of the parallel map: the conflicts are summed, the clock is
\* stopped and a line is logged.
RoundEnd ==
    /\ mainpc = "round"
    /\ AllJoined
    /\ conflicts' = add_conflicts(conflicts, SumConflicts(nthreads))
    /\ \E delta_seconds \in 0 .. 1 :
          logger' = GlauberLogger_log(
                        GlauberLogger_stop(logger, samples_to_sample, delta_seconds),
                        colors)
    /\ workers' = [w \in Workers |-> [workers[w] EXCEPT !.pc = "idle"]]
    /\ mainpc' = "loop"
    /\ UNCHANGED <<runVars, unitVars, cellVars, colors, samples_left_this_round,
                   samples_to_sample, accepted, asserts_ok, returned>>

\* After the loop: every cell is unwrapped.
Finish ==
    /\ mainpc = "loop"
    /\ ~(logger.steps < nsamples)
    /\ IF \E v \in Vertices(graph) : into_inner(colors[v]).panic
       THEN /\ mainpc' = "panic"
            /\ returned' = returned
       ELSE /\ mainpc' = "returned"
            /\ returned' = [v \in Vertices(graph) |-> into_inner(colors[v]).value]
    /\ UNCHANGED <<runVars, unitVars, cellVars, colors, logger, conflicts,
                   samples_left_this_round, samples_to_sample, workers,
                   accepted, asserts_ok>>

\* The outcomes of greedy on g, one per outcome of the unstable sort.
GreedyResults(g) == {greedy(g, o) : o \in SortedByDegree(g)}

\* glauber is called with a graph, a colour budget, a sample count of at
\* most `most` and a frequency; nothing has run yet.
InitWith(graphs, most, frequencies) ==
    /\ graph \in graphs
    /\ ncolors \in 1 .. MaxColors
    /\ nsamples \in 0 .. most
    /\ frequency \in frequencies
    /\ seed \in GreedyResults(graph)
    /\ nthreads \in 1 .. NWorkers
    /\ mainpc = "start"
    /\ colors = << >>
    /\ logger = NoLogger
    /\ conflicts = 0
    /\ samples_left_this_round = 0
    /\ samples_to_sample = 0
    /\ workers = [w \in Workers |-> IdleWorker(DiscreteSampler_new(0))]
    /\ accepted = 0
    /\ asserts_ok = TRUE
    /\ returned = << >>
    /\ cell = 0
    /\ threads = << >>
    /\ committed = [value |-> 0, written |-> FALSE, previous |-> 0]
    /\ unwrapped = << >>
    /\ UnitIdle

\* glauber is called with a frequency of at least one sample a round.
InitOn(graphs, most) == InitWith(graphs, most, 1 .. MaxFrequency)

\* glauber is called on one of the graphs of the model.
InitUpTo(most) == InitOn(Graphs, most)

Init == InitUpTo(MaxSamples)

Next ==
    \/ Start
    \/ RoundStart
    \/ \E w \in Workers : WorkerStep(w)
    \/ RoundEnd
    \/ Finish

Spec == Init /\ [][Next]_vars

(***************************************************************************)
(* Properties of the sampling engine.                                      *)
(***************************************************************************)
\* The colour held by the cell of v.
color_of(v) == from_payload(colors[v])

\* col, a function on the vertices of g, gives different colours to the two
\* ends of every edge (check_proper_coloring of examples/color.rs).
Proper(g, col) ==
    \A v \in Vertices(g) :
        \A k \in 1 .. degree(g, v) : col[v] # col[neighbors(g, v)[k]]

\* The worker has a claimed unit it has not finished.
HasUnit(w) == workers[w].unit > 0

\* What the lock fields of the cell of v owe to worker record wr: its write
\* guard or write bit not yet undone, and its read guards and count-up not
\* yet undone.
OwesWrite(wr, v) == wr.v = v /\ (wr.holds_write \/ wr.pc = "write_undo")

OwesReads(wr, v) ==
    Cardinality({i \in 1 .. Len(wr.neighbor_guards) : wr.neighbor_guards[i] = v})
        + (IF wr.pc = "read_undo" /\ neighbors(graph, wr.v)[wr.k] = v
           THEN 1 ELSE 0)

RECURSIVE SumOwedReads(_, _, _)
SumOwedReads(ws, n, v) ==
    IF n = 0 THEN 0 ELSE OwesReads(ws[n], v) + SumOwedReads(ws, n - 1, v)

\* C1: during a run whose budget check passed, the payloads of the cells
\* are a proper colouring in every reachable state, and so is every logged
\* snapshot and the colouring returned.
C1_ProperColoring ==
    colors # << >> =>
        /\ Proper(graph, [v \in Vertices(graph) |-> color_of(v)])
        /\ \A i \in 1 .. Len(logger.color_file) :
               Proper(graph, logger.color_file[i].colors)
        /\ mainpc = "returned" => Proper(graph, returned)

\* A run of two workers that met conflicts has returned a colouring other
\* than the seed.
C1_Witness ==
    /\ mainpc = "returned"
    /\ conflicts > 0
    /\ \E v \in Vertices(graph) : returned[v] # seed.colors[v + 1]

\* C5: a lock call performs at most two atomic operations, and a worker
\* with a claimed unit always has an enabled step.
C5_NoWaiting ==
    \A w \in Workers :
        /\ workers[w].lock_ops <= 2
        /\ workers[w].in_call => workers[w].lock_ops = 1
        /\ HasUnit(w) => ENABLED WorkerStep(w)

\* Two workers each hold the write guard the other's read lock needs, and
\* both are between the count-up and its undo.
C5_Witness ==
    /\ nthreads = NWorkers
    /\ workers[1].pc = "read_undo"
    /\ workers[2].pc = "read_undo"
    /\ workers[1].holds_write
    /\ workers[2].holds_write

\* C7: the units of a round are claimed once each and only while the
\* countdown is positive, a round accepts exactly its size
\* min(frequency, nsamples - steps), and the run accepts exactly nsamples.
C7_ExactRound ==
    /\ \A w \in Workers :
           /\ workers[w].pc \in {"attempt", "write_undo", "read_lock",
                                 "read_undo", "release"} <=> HasUnit(w)
           /\ workers[w].unit <= samples_to_sample
    /\ \A w1, w2 \in Workers :
           (w1 # w2 /\ HasUnit(w1) /\ HasUnit(w2)) =>
               workers[w1].unit # workers[w2].unit
    /\ mainpc = "round" =>
           /\ samples_to_sample = Min(frequency, nsamples - logger.steps)
           /\ (accepted - logger.steps)
                  + Cardinality({w \in Workers : HasUnit(w)})
                  + (IF samples_left_this_round > 0
                     THEN samples_left_this_round ELSE 0)
              = samples_to_sample
           /\ AllJoined => accepted = logger.steps + samples_to_sample
    /\ mainpc = "returned" => accepted = nsamples

\* A round cut short by the end of the run (frequency 2, one sample left)
\* has been joined after both workers decremented the countdown below zero.
C7_Witness ==
    /\ mainpc = "round"
    /\ AllJoined
    /\ frequency > nsamples - logger.steps
    /\ samples_left_this_round < 0
    /\ accepted = nsamples

\* C8: at every snapshot no worker is inside an attempt, every cell is
\* unlocked, and the step count logged is the number of accepted samples;
\* the only fatal exit is the budget assertion.
C8_Snapshot ==
    /\ mainpc = "loop" =>
           /\ \A w \in Workers :
                  /\ workers[w].pc = "idle"
                  /\ ~workers[w].holds_write
                  /\ workers[w].neighbor_guards = << >>
           /\ \A v \in Vertices(graph) :
                  WriteBit(colors[v]) = 0 /\ ReadSem(colors[v]) = 0
           /\ accepted = logger.steps
           /\ logger.color_file[Len(logger.color_file)] =
                  [steps |-> accepted,
                   colors |-> [v \in Vertices(graph) |-> color_of(v)]]
    /\ mainpc = "panic" => seed.ncolors > ncolors /\ colors = << >>
    /\ mainpc = "returned" =>
           \A v \in Vertices(graph) : ~into_inner(colors[v]).panic

\* The snapshot after the second round of a run that met a conflict.
C8_Witness ==
    /\ mainpc = "loop"
    /\ Len(logger.color_file) = 3
    /\ conflicts > 0
    /\ logger.steps = 3

\* The step of worker w that starts a retry: a failed attempt has ended.
RetryStarts(w) ==
    /\ workers[w].pc \in {"attempt", "write_undo", "release"}
    /\ workers'[w].pc = "attempt"
    /\ workers'[w] # workers[w]

\* C9: when a worker starts a retry it holds no guard (the lock fields of
\* every cell are exactly what the other workers hold), the step changes no
\* payload, counts one conflict and consumes no sample; and a payload only
\* ever changes when the write guard of a successful attempt is dropped.
C9_FailedAttemptFrame ==
    [][/\ \A w \in Workers :
              RetryStarts(w) =>
                  /\ ~workers'[w].holds_write
                  /\ workers'[w].neighbor_guards = << >>
                  /\ \A v \in Vertices(graph) :
                         /\ (WriteBit(colors'[v]) > 0) =
                                (\E o \in Workers \ {w} : OwesWrite(workers'[o], v))
                         /\ ReadSem(colors'[v]) =
                                SumOwedReads(
                                    [workers' EXCEPT ![w] = IdleWorker(<< >>)],
                                    nthreads, v)
                         /\ from_payload(colors'[v]) = from_payload(colors[v])
                  /\ workers'[w].conflicts = count_conflict(workers[w].conflicts)
                  /\ workers'[w].unit = workers[w].unit
                  /\ accepted' = accepted
                  /\ samples_left_this_round' = samples_left_this_round
       /\ \A v \in Vertices(graph) :
              (colors # << >> /\ from_payload(colors'[v]) # from_payload(colors[v])) =>
                  \E w \in Workers :
                      /\ workers[w].pc = "release"
                      /\ workers[w].successful
                      /\ workers[w].v = v
                      /\ workers[w].holds_write
                      /\ ~workers'[w].holds_write]_vars

\* A worker is back at the start of try_mcmc_update with a conflict
\* counted, after a failure that had taken a write guard and a read guard.
C9_Witness ==
    \E w \in Workers :
        /\ workers[w].pc = "attempt"
        /\ workers[w].conflicts > 0
        /\ \E o \in Workers \ {w} : workers[o].holds_write

\* C10: when the write guard of an attempt that sampled a colour is
\* dropped, the worker holds a read guard on every neighbour of v, before
\* and after the drop.
C10_WriteReleasedFirst ==
    [][\A w \in Workers :
           (/\ workers[w].pc = "release"
            /\ workers[w].sampled
            /\ workers[w].holds_write
            /\ ~workers'[w].holds_write) =>
               /\ workers[w].neighbor_guards = neighbors(graph, workers[w].v)
               /\ workers'[w].neighbor_guards = workers[w].neighbor_guards
               /\ \A k \in 1 .. degree(graph, workers[w].v) :
                      LET n == neighbors(graph, workers[w].v)[k]
                      IN  ReadSem(colors[n]) > 0 /\ ReadSem(colors'[n]) > 0]_vars

\* The new colour of a vertex with two neighbours is visible while the
\* worker still holds both read guards.
C10_Witness ==
    \E w \in Workers :
        /\ workers[w].pc = "release"
        /\ workers[w].sampled
        /\ ~workers[w].holds_write
        /\ Len(workers[w].neighbor_guards) = 2
        /\ color_of(workers[w].v) = workers[w].guard.current
        /\ workers[w].guard.current # workers[w].guard.previous

(***************************************************************************)
(* atomic_rw.rs: one Rwu32 cell used by NThreads threads.  Each thread     *)
(* makes one call at a time and holds at most one guard:                   *)
(*   pc "idle"         no call in flight, no guard held                    *)
(*      "write_undo"   try_write_lock: between the fetch_or and its undo   *)
(*      "write_guard"  holds the WriteGuard `guard`                        *)
(*      "read_undo"    try_read_lock: between the fetch_add and its undo   *)
(*      "read_guard"   holds a ReadGuard, having read `value`              *)
(* wrote and written are history: write was called on the guard, and the   *)
(* value of the last call.                                                 *)
(***************************************************************************)
Threads == 1 .. NThreads

IdleThread ==
    [pc |-> "idle", guard |-> NoGuard, value |-> 0,
     wrote |-> FALSE, written |-> 0]

\* WriteGuard::write
WriteGuard_write(g, v) == [g EXCEPT !.current = v]

CellTryWriteLock(t) ==
    /\ unwrapped = << >>
    /\ threads[t].pc = "idle"
    /\ cell' = fetch_or_write_bit(cell)
    /\ LET out == try_write_lock_outcome(cell)
       IN  threads' = [threads EXCEPT ![t] =
               IF out = "none" THEN @
               ELSE IF out = "undo" THEN [@ EXCEPT !.pc = "write_undo"]
               ELSE [@ EXCEPT !.pc = "write_guard",
                              !.guard = WriteGuard_from(from_payload(cell))]]
    /\ UNCHANGED <<runVars, unitVars, engineVars, committed, unwrapped>>

CellWriteUndo(t) ==
    /\ threads[t].pc = "write_undo"
    /\ cell' = fetch_and_not_write_bit(cell)
    /\ threads' = [threads EXCEPT ![t] = IdleThread]
    /\ UNCHANGED <<runVars, unitVars, engineVars, committed, unwrapped>>

CellWrite(t) ==
    /\ threads[t].pc = "write_guard"
    /\ \E v \in 0 .. U32_MAX :
           threads' = [threads EXCEPT ![t] =
               [@ EXCEPT !.guard = WriteGuard_write(@, v),
                         !.wrote = TRUE, !.written = v]]
    /\ UNCHANGED <<runVars, unitVars, engineVars, cell, committed, unwrapped>>

CellDropWrite(t) ==
    /\ threads[t].pc = "write_guard"
    /\ cell' = WriteGuard_drop(cell, threads[t].guard)
    /\ committed' = IF threads[t].wrote
                    THEN [value |-> threads[t].written, written |-> TRUE,
                          previous |-> threads[t].guard.previous]
                    ELSE committed
    /\ threads' = [threads EXCEPT ![t] = IdleThread]
    /\ UNCHANGED <<runVars, unitVars, engineVars, unwrapped>>

CellTryReadLock(t) ==
    /\ unwrapped = << >>
    /\ threads[t].pc = "idle"
    /\ cell' = fetch_add(cell, 1)
    /\ threads' = [threads EXCEPT ![t] =
           IF try_read_lock_outcome(cell) = "undo"
           THEN [@ EXCEPT !.pc = "read_undo"]
           ELSE [@ EXCEPT !.pc = "read_guard", !.value = from_payload(cell)]]
    /\ UNCHANGED <<runVars, unitVars, engineVars, committed, unwrapped>>

CellReadUndo(t) ==
    /\ threads[t].pc = "read_undo"
    /\ cell' = fetch_sub(cell, 1)
    /\ threads' = [threads EXCEPT ![t] = IdleThread]
    /\ UNCHANGED <<runVars, unitVars, engineVars, committed, unwrapped>>

CellDropRead(t) ==
    /\ threads[t].pc = "read_guard"
    /\ cell' = fetch_sub(cell, 1)
    /\ threads' = [threads EXCEPT ![t] = IdleThread]
    /\ UNCHANGED <<runVars, unitVars, engineVars, committed, unwrapped>>

\* into_inner takes the cell by value: no guard borrows it and no call is in
\* flight.
CellIntoInner ==
    /\ unwrapped = << >>
    /\ \A t \in Threads : threads[t].pc = "idle"
    /\ unwrapped' = <<into_inner(cell)>>
    /\ UNCHANGED <<runVars, unitVars, engineVars, cell, threads, committed>>

CellInit ==
    /\ graph = PathGraph
    /\ ncolors = 1
    /\ nsamples = 0
    /\ frequency = 1
    /\ seed = [ncolors |-> 0, colors |-> << >>]
    /\ nthreads = NWorkers
    /\ mainpc = "cell"
    /\ colors = << >>
    /\ logger = NoLogger
    /\ conflicts = 0
    /\ samples_left_this_round = 0
    /\ samples_to_sample = 0
    /\ workers = [w \in Workers |-> IdleWorker(DiscreteSampler_new(0))]
    /\ accepted = 0
    /\ asserts_ok = TRUE
    /\ returned = << >>
    /\ \E init \in 0 .. U32_MAX :
           /\ cell = Rwu32_new(init)
           /\ committed = [value |-> init, written |-> FALSE, previous |-> init]
    /\ threads = [t \in Threads |-> IdleThread]
    /\ unwrapped = << >>
    /\ UnitIdle

CellNext ==
    \/ \E t \in Threads :
           \/ CellTryWriteLock(t)
           \/ CellWriteUndo(t)
           \/ CellWrite(t)
           \/ CellDropWrite(t)
           \/ CellTryReadLock(t)
           \/ CellReadUndo(t)
           \/ CellDropRead(t)
    \/ CellIntoInner

CellSpec == CellInit /\ [][CellNext]_vars

WriteGuards == {t \in Threads : threads[t].pc = "write_guard"}
ReadGuards == {t \in Threads : threads[t].pc = "read_guard"}

\* C2: at most one write guard is outstanding, and never together with a
\* read guard.
C2_MutualExclusion ==
    /\ Cardinality(WriteGuards) <= 1
    /\ WriteGuards # {} => ReadGuards = {}

\* Two read guards are outstanding while a third thread's try_write_lock
\* has set the write bit and not yet undone it.
C2_Witness ==
    /\ Cardinality(ReadGuards) = 2
    /\ \E t \in Threads : threads[t].pc = "write_undo"

\* C3: the value a read guard was given is the payload of the cell for as
\* long as the guard is held.
C3_ReadStable ==
    \A t \in ReadGuards : from_payload(cell) = threads[t].value

\* A read guard holds a value written earlier while another thread's failed
\* try_write_lock is between its fetch_or and its undo and a third's failed
\* try_read_lock is between its fetch_add and its undo.
C3_Witness ==
    \E t, u, x \in Threads :
        /\ threads[t].pc = "read_guard"
        /\ committed.written
        /\ threads[t].value = committed.value
        /\ threads[u].pc = "write_undo"
        /\ threads[x].pc = "read_undo"

\* C4: once a write guard is released, the payload, every value given to a
\* read guard and the result of into_inner are the last value written
\* under a write guard; a guard released without a write changes nothing.
C4_WriteThenRead ==
    /\ WriteGuards = {} => from_payload(cell) = committed.value
    /\ \A t \in ReadGuards : threads[t].value = committed.value
    /\ unwrapped # << >> =>
           unwrapped[1] = [panic |-> FALSE, value |-> committed.value]

\* into_inner has returned a value written under a guard, smaller than the
\* value the cell was created with or not.
C4_Witness ==
    /\ unwrapped # << >>
    /\ committed.written
    /\ unwrapped[1].value = committed.value
    /\ unwrapped[1].value > 0

(***************************************************************************)
(* The engine under fair scheduling: every worker that can take a step     *)
(* eventually takes one, and so does glauber's own thread.                 *)
(***************************************************************************)
MainStep == Start \/ RoundStart \/ RoundEnd \/ Finish

FairInit == InitUpTo(MaxFairSamples)

FairSpec ==
    /\ FairInit
    /\ [][Next]_vars
    /\ WF_vars(MainStep)
    /\ \A w \in 1 .. NWorkers : WF_vars(w \in Workers /\ WorkerStep(w))

\* C6 as claimed: under fair scheduling every run completes.
C6_RunCompletes == <>(mainpc \in {"returned", "panic"})

\* C6, amended: under fair scheduling every update attempt ends, in a
\* success (the worker is back at the countdown) or in a counted conflict
\* (the worker is back at the start of try_mcmc_update).
C6_AttemptsEnd ==
    \A w \in 1 .. NWorkers :
        (w \in Workers /\
         workers[w].pc \in {"write_undo", "read_lock", "read_undo", "release"})
            ~> (w \in Workers /\ workers[w].pc \in {"attempt", "claim"})

\* A worker whose conflict counter is at the bound of the model is
\* releasing the write guard of one more failed attempt.
C6_Witness ==
    \E w \in Workers :
        /\ workers[w].pc = "release"
        /\ ~workers[w].successful
        /\ workers[w].holds_write
        /\ workers[w].conflicts = MaxConflicts

(***************************************************************************)
(* Stand-ins for the parts of the state a specification does not use.      *)
(***************************************************************************)
RunIdle ==
    /\ ncolors = 1
    /\ nsamples = 0
    /\ frequency = 1
    /\ nthreads = NWorkers

EngineIdle ==
    /\ colors = << >>
    /\ logger = NoLogger
    /\ conflicts = 0
    /\ samples_left_this_round = 0
    /\ samples_to_sample = 0
    /\ workers = [w \in Workers |-> IdleWorker(DiscreteSampler_new(0))]
    /\ accepted = 0
    /\ asserts_ok = TRUE
    /\ returned = << >>

CellIdle ==
    /\ cell = 0
    /\ threads = << >>
    /\ committed = [value |-> 0, written |-> FALSE, previous |-> 0]
    /\ unwrapped = << >>

NoSeed == [ncolors |-> 0, colors |-> << >>]
NoGraph == [offsets |-> <<0>>, neighbors |-> << >>]

(***************************************************************************)
(* graph.rs: the compact graphs whose windows are strictly increasing and  *)
(* symmetric, without self-loops.                                          *)
(***************************************************************************)
\* The elements of a finite set of numbers in increasing order.
RECURSIVE Increasing(_)
Increasing(S) ==
    IF S = {}
    THEN << >>
    ELSE LET m == CHOOSE x \in S : \A y \in S : x <= y
         IN  <<m>> \o Increasing(S \ {m})

\* The windows of vertices v, v+1, .. n-1, one after the other.
RECURSIVE Windows(_, _, _)
Windows(adj, v, n) ==
    IF v >= n THEN << >> ELSE Increasing(adj[v]) \o Windows(adj, v + 1, n)

RECURSIVE SumDegrees(_, _)
SumDegrees(adj, v) ==
    IF v = 0 THEN 0 ELSE Cardinality(adj[v - 1]) + SumDegrees(adj, v - 1)

\* The compact form of the graph on 0 .. n-1 with adjacency sets adj.
CompactGraph(n, adj) ==
    [offsets |-> [k \in 1 .. (n + 1) |-> SumDegrees(adj, k - 1)],
     neighbors |-> Windows(adj, 0, n)]

Adjacencies(n) ==
    {adj \in [0 .. (n - 1) -> SUBSET (0 .. (n - 1))] :
        \A v, w \in 0 .. (n - 1) :
            /\ v \notin adj[v]
            /\ (w \in adj[v]) <=> (v \in adj[w])}

SimpleGraphs(most) ==
    UNION {{CompactGraph(n, adj) : adj \in Adjacencies(n)} : n \in 0 .. most}

\* The maximum degree, 0 for the graph without vertices.
MaxDegree(g) ==
    IF nvertices(g) = 0
    THEN 0
    ELSE CHOOSE d \in {degree(g, v) : v \in Vertices(g)} :
             \A v \in Vertices(g) : degree(g, v) <= d

(***************************************************************************)
(* color.rs: greedy, one step per iteration of its main loop.              *)
(*   mainpc "greedy_sort"  before the sort of the vertices                 *)
(*          "greedy_loop"  in the main loop; next is the position in       *)
(*                         `vertices` of the next vertex, counting down    *)
(*          "greedy_done"  returned: seed is the result                    *)
(***************************************************************************)
GreedySort ==
    /\ mainpc = "greedy_sort"
    /\ \E order \in SortedByDegree(graph) :
           greedy_run' = [vertices |-> order,
                          next |-> nvertices(graph),
                          colors |-> [v \in 1 .. nvertices(graph) |-> NO_COLOR],
                          adjacent_colors |-> << >>]
    /\ mainpc' = "greedy_loop"
    /\ UNCHANGED <<runVars, cellVars, readVars, samplerVars, colors, logger,
                   conflicts, samples_left_this_round, samples_to_sample,
                   workers, accepted, asserts_ok, returned>>

GreedyIterate ==
    /\ mainpc = "greedy_loop"
    /\ greedy_run.next > 0
    /\ LET r == greedy_step(graph, greedy_run.vertices[greedy_run.next],
                            greedy_run.colors, greedy_run.adjacent_colors)
       IN  greedy_run' = [greedy_run EXCEPT !.next = @ - 1,
                                            !.colors = r.colors,
                                            !.adjacent_colors = r.adj]
    /\ UNCHANGED <<runVars, engineVars, cellVars, readVars, samplerVars>>

GreedyReturn ==
    /\ mainpc = "greedy_loop"
    /\ greedy_run.next = 0
    /\ seed' = [ncolors |-> Len(greedy_run.adjacent_colors),
                colors |-> greedy_run.colors]
    /\ mainpc' = "greedy_done"
    /\ UNCHANGED <<graph, ncolors, nsamples, frequency, nthreads, cellVars,
                   unitVars,
                   colors, logger, conflicts, samples_left_this_round,
                   samples_to_sample, workers, accepted, asserts_ok, returned>>

GreedyInit ==
    /\ graph \in SimpleGraphs(MaxVertices)
    /\ seed = NoSeed
    /\ mainpc = "greedy_sort"
    /\ RunIdle
    /\ EngineIdle
    /\ CellIdle
    /\ UnitIdle

GreedyNext == GreedySort \/ GreedyIterate \/ GreedyReturn

GreedySpec == GreedyInit /\ [][GreedyNext]_vars

\* C11: greedy returns a colour below ncolors_used for every vertex, gives
\* the two ends of every edge different colours and uses at most one colour
\* more than the maximum degree; between two iterations no scratch mark is
\* set, and the result is the seed glauber starts from.
C11_GreedySeed ==
    /\ mainpc = "greedy_loop" =>
           \A c \in 1 .. Len(greedy_run.adjacent_colors) :
               ~greedy_run.adjacent_colors[c]
    /\ mainpc = "greedy_done" =>
           /\ Len(seed.colors) = nvertices(graph)
           /\ \A v \in Vertices(graph) :
                  seed.colors[v + 1] \in 0 .. (seed.ncolors - 1)
           /\ Proper(graph, [v \in Vertices(graph) |-> seed.colors[v + 1]])
           /\ seed.ncolors <= MaxDegree(graph) + 1
           /\ seed = greedy(graph, greedy_run.vertices)

\* greedy has coloured the path 0-1-2, of maximum degree 2, with 2 colours.
C11_Witness ==
    /\ mainpc = "greedy_done"
    /\ graph = PathGraph
    /\ seed.ncolors = 2

(***************************************************************************)
(* graphio.rs: read.  A shard is the sequence of its (target, neighbor)    *)
(* pairs, in the order of its lines and of the words of each line; one     *)
(* thread folds over each shard.  Every atomic operation on the shared     *)
(* counters and on the shared neighbour array is one step.                 *)
(*   mainpc "count"      the degree-counting pass                          *)
(*          "place"      the edge-placement pass                           *)
(*          "construct"  the windows are sorted: at Graph::new             *)
(*          "built"      the graph is returned                             *)
(*          "panic"      fatal                                             *)
(* scan[s] = [pair, op, target_ix, neighbor_ix]: the pair shard s is at,   *)
(* the atomic operations done for it, and the slots fetched for it.        *)
(***************************************************************************)
Shards == 1 .. NShards
Ids == 0 .. (MaxVertices - 1)
Pairs == [target : Ids, neighbor : Ids]

RECURSIVE SumLen(_, _)
SumLen(ss, n) == IF n = 0 THEN 0 ELSE Len(ss[n]) + SumLen(ss, n - 1)

\* The inputs: NShards shards holding at most `most` pairs in all.
Inputs(most) ==
    {ss \in [Shards -> UNION {[1 .. len -> Pairs] : len \in 0 .. most}] :
        SumLen(ss, NShards) <= most}

\* The ids of the input, and 1 + the largest of them (1 for an empty input).
read_nvertices(ss) ==
    LET ids == UNION {UNION {{ss[s][k].target, ss[s][k].neighbor} :
                                 k \in 1 .. Len(ss[s])} : s \in Shards}
    IN  1 + (IF ids = {} THEN 0 ELSE CHOOSE m \in ids : \A i \in ids : i <= m)

StartOfPass == [pair |-> 1, op |-> 0, target_ix |-> 0, neighbor_ix |-> 0]

\* The fold of shard s has consumed its last line.
Folded(s) == scan[s].pair > Len(shards[s])

current_pair(s) == shards[s][scan[s].pair]

\* fetch_add(1) on element i (from 0) of a vector of atomic counters: the
\* new vector, and the value returned.
counters_fetch_add(counters, i) == [counters EXCEPT ![i + 1] = @ + 1]

\* A fetch that returns the value after the increment.
counters_incremented(counters, i) == counters[i + 1] + 1

counters_fetched(counters, i) == counters[i + 1]

\* atomic_offsets[1 + neighbor].fetch_add(1)
CountNeighbor(s) ==
    /\ mainpc = "count"
    /\ ~Folded(s)
    /\ scan[s].op = 0
    /\ atomic_offsets' = counters_fetch_add(atomic_offsets, 1 + current_pair(s).neighbor)
    /\ scan' = [scan EXCEPT ![s].op = 1]
    /\ UNCHANGED <<runVars, engineVars, cellVars, greedy_run, samplerVars,
                   shards, offsets, atomic_edges, stores, edges, debug>>

\* atomic_offsets[1 + target].fetch_add(1), then the next pair.
CountTarget(s) ==
    /\ mainpc = "count"
    /\ ~Folded(s)
    /\ scan[s].op = 1
    /\ atomic_offsets' = counters_fetch_add(atomic_offsets, 1 + current_pair(s).target)
    /\ scan' = [scan EXCEPT ![s].op = 0, ![s].pair = @ + 1]
    /\ UNCHANGED <<runVars, engineVars, cellVars, greedy_run, samplerVars,
                   shards, offsets, atomic_edges, stores, edges, debug>>

\* The running sum of a vector, in place.
RECURSIVE cumsum_upto(_, _)
cumsum_upto(counts, k) == IF k = 0 THEN 0 ELSE counts[k] + cumsum_upto(counts, k - 1)

\* A sum that leaves out the element itself.
cumsum_before(counts) == [k \in 1 .. Len(counts) |-> cumsum_upto(counts, k - 1)]

cumsum(counts) == [k \in 1 .. Len(counts) |-> cumsum_upto(counts, k)]

\* After the first pass has joined: the prefix sum, the offsets vector, the
\* neighbour array of offsets[last] zeros, and the start of the second pass.
PrefixSum ==
    /\ mainpc = "count"
    /\ \A s \in Shards : Folded(s)
    /\ LET sums == cumsum(atomic_offsets)
           nedges == sums[Len(sums)]
       IN  /\ atomic_offsets' = sums
           /\ offsets' = sums
           /\ atomic_edges' = [i \in 1 .. nedges |-> 0]
           /\ stores' = [i \in 1 .. nedges |-> 0]
    /\ scan' = [s \in Shards |-> StartOfPass]
    /\ mainpc' = "place"
    /\ UNCHANGED <<runVars, cellVars, greedy_run, samplerVars, shards, edges,
                   debug, colors, logger, conflicts, samples_left_this_round,
                   samples_to_sample, workers, accepted, asserts_ok, returned>>

\* let target_ix = atomic_offsets[target].fetch_add(1)
PlaceTarget(s) ==
    /\ mainpc = "place"
    /\ ~Folded(s)
    /\ scan[s].op = 0
    /\ atomic_offsets' = counters_fetch_add(atomic_offsets, current_pair(s).target)
    /\ scan' = [scan EXCEPT ![s].op = 1,
                            ![s].target_ix =
                                counters_fetched(atomic_offsets, current_pair(s).target)]
    /\ UNCHANGED <<runVars, engineVars, cellVars, greedy_run, samplerVars,
                   shards, offsets, atomic_edges, stores, edges, debug>>

\* let neighbor_ix = atomic_offsets[neighbor].fetch_add(1)
PlaceNeighbor(s) ==
    /\ mainpc = "place"
    /\ ~Folded(s)
    /\ scan[s].op = 1
    /\ atomic_offsets' = counters_fetch_add(atomic_offsets, current_pair(s).neighbor)
    /\ scan' = [scan EXCEPT ![s].op = 2,
                            ![s].neighbor_ix =
                                counters_fetched(atomic_offsets, current_pair(s).neighbor)]
    /\ UNCHANGED <<runVars, engineVars, cellVars, greedy_run, samplerVars,
                   shards, offsets, atomic_edges, stores, edges, debug>>

\* atomic_edges[ix].store(value): fatal when ix is out of the array's bounds.
StoreAt(s, ix, value, op_after, pair_after) ==
    IF ix < Len(atomic_edges)
    THEN /\ atomic_edges' = [atomic_edges EXCEPT ![ix + 1] = value]
         /\ stores' = [stores EXCEPT ![ix + 1] = @ + 1]
         /\ scan' = [scan EXCEPT ![s].op = op_after, ![s].pair = pair_after]
         /\ UNCHANGED engineVars
    ELSE /\ mainpc' = "panic"
         /\ UNCHANGED <<atomic_edges, stores, scan, colors, logger, conflicts,
                        samples_left_this_round, samples_to_sample, workers,
                        accepted, asserts_ok, returned>>

\* atomic_edges[target_ix].store(neighbor)
StoreNeighbor(s) ==
    /\ mainpc = "place"
    /\ ~Folded(s)
    /\ scan[s].op = 2
    /\ StoreAt(s, scan[s].target_ix, current_pair(s).neighbor, 3, scan[s].pair)
    /\ UNCHANGED <<runVars, cellVars, greedy_run, samplerVars, shards,
                   atomic_offsets, offsets, edges, debug>>

\* atomic_edges[neighbor_ix].store(target), then the next pair.
StoreTarget(s) ==
    /\ mainpc = "place"
    /\ ~Folded(s)
    /\ scan[s].op = 3
    /\ StoreAt(s, scan[s].neighbor_ix, current_pair(s).target, 0, scan[s].pair + 1)
    /\ UNCHANGED <<runVars, cellVars, greedy_run, samplerVars, shards,
                   atomic_offsets, offsets, edges, debug>>

\* sort_unstable of a window of vertex ids: equal ids are indistinguishable.
RECURSIVE sort_unstable(_)
sort_unstable(w) ==
    IF Len(w) = 0
    THEN << >>
    ELSE LET i == CHOOSE k \in 1 .. Len(w) : \A q \in 1 .. Len(w) : w[k] <= w[q]
         IN  <<w[i]>> \o sort_unstable(SubSeq(w, 1, i - 1) \o SubSeq(w, i + 1, Len(w)))

\* The windows offs[v] .. offs[v+1] of flat, for v from position k on, each
\* one sorted.
RECURSIVE sort_windows(_, _, _)
sort_windows(offs, flat, k) ==
    IF k >= Len(offs)
    THEN << >>
    ELSE sort_unstable(SubSeq(flat, offs[k] + 1, offs[k + 1]))
             \o sort_windows(offs, flat, k + 1)

\* After the second pass has joined: the array is unwrapped and every
\* window is sorted.
SortWindows ==
    /\ mainpc = "place"
    /\ \A s \in Shards : Folded(s)
    /\ edges' = sort_windows(offsets, atomic_edges, 1)
    /\ mainpc' = "construct"
    /\ UNCHANGED <<runVars, cellVars, greedy_run, samplerVars, shards, scan,
                   atomic_offsets, offsets, atomic_edges, stores, debug,
                   colors, logger, conflicts, samples_left_this_round,
                   samples_to_sample, workers, accepted, asserts_ok, returned>>

(***************************************************************************)
(* graph.rs: Graph::new.                                                   *)
(***************************************************************************)
\* The debug assertion of Graph::new.  Every window is checked to be
\* strictly increasing, so the binary search for i in the window of j
\* decides the assertion only when it runs on a sorted window, where it
\* finds i exactly when i is there.
Graph_new_debug_assert(offs, nbrs) ==
    \A i \in 0 .. (Len(offs) - 2) :
        LET s0 == offs[i + 1]
            s1 == offs[i + 2]
        IN  /\ s0 < s1
            /\ \A k \in (s0 + 1) .. (s1 - 1) : nbrs[k] < nbrs[k + 1]
            /\ \A k \in (s0 + 1) .. s1 :
                   LET j == nbrs[k]
                   IN  \E q \in (offs[j + 1] + 1) .. offs[j + 2] : nbrs[q] = i

\* Graph::new(offsets, edges)
GraphNew ==
    /\ mainpc = "construct"
    /\ IF debug /\ ~Graph_new_debug_assert(offsets, edges)
       THEN /\ mainpc' = "panic"
            /\ graph' = graph
       ELSE /\ mainpc' = "built"
            /\ graph' = [offsets |-> offsets, neighbors |-> edges]
    /\ UNCHANGED <<ncolors, nsamples, frequency, seed, nthreads, cellVars,
                   unitVars, colors, logger, conflicts, samples_left_this_round,
                   samples_to_sample, workers, accepted, asserts_ok, returned>>

ReadInit ==
    /\ shards \in Inputs(MaxPairs)
    /\ scan = [s \in Shards |-> StartOfPass]
    /\ atomic_offsets = [i \in 1 .. (read_nvertices(shards) + 1) |-> 0]
    /\ offsets = << >>
    /\ atomic_edges = << >>
    /\ stores = << >>
    /\ edges = << >>
    /\ debug \in BOOLEAN
    /\ mainpc = "count"
    /\ graph = NoGraph
    /\ seed = NoSeed
    /\ RunIdle
    /\ EngineIdle
    /\ CellIdle
    /\ GreedyIdle
    /\ SamplerIdle

ReadNext ==
    \/ \E s \in Shards :
           \/ CountNeighbor(s)
           \/ CountTarget(s)
           \/ PlaceTarget(s)
           \/ PlaceNeighbor(s)
           \/ StoreNeighbor(s)
           \/ StoreTarget(s)
    \/ PrefixSum
    \/ SortWindows
    \/ GraphNew

ReadSpec == ReadInit /\ [][ReadNext]_vars

(***************************************************************************)
(* Properties of read.                                                     *)
(***************************************************************************)
\* The ids that occur in the input.
IdsOf(ss) ==
    UNION {UNION {{ss[s][k].target, ss[s][k].neighbor} : k \in 1 .. Len(ss[s])} :
               s \in Shards}

\* The occurrences of v in the pairs of the input, as target and as neighbor.
RECURSIVE Occurrences(_, _, _)
Occurrences(ss, n, v) ==
    IF n = 0
    THEN 0
    ELSE Cardinality({k \in 1 .. Len(ss[n]) : ss[n][k].target = v})
         + Cardinality({k \in 1 .. Len(ss[n]) : ss[n][k].neighbor = v})
         + Occurrences(ss, n - 1, v)

\* The vertices adjacent to v in the input.
AdjacentTo(ss, v) ==
    {w \in Ids : \E s \in Shards : \E k \in 1 .. Len(ss[s]) :
        \/ ss[s][k].target = v /\ ss[s][k].neighbor = w
        \/ ss[s][k].target = w /\ ss[s][k].neighbor = v}

\* Slot ix lies in the window reserved for vertex v.
InWindow(ix, v) == offsets[v + 1] <= ix /\ ix < offsets[v + 2]

\* C12: in the edge-placement pass every slot fetched for a vertex lies in
\* that vertex's window and is in bounds, no slot is stored to twice, and
\* when the pass has joined every slot was stored to exactly once and the
\* cursor of each vertex is the end of its window.
C12_PlacementSlots ==
    /\ mainpc = "panic" => \A s \in Shards : Folded(s)
    /\ mainpc = "place" =>
           \A s \in Shards :
               ~Folded(s) =>
                   /\ scan[s].op >= 1 =>
                          InWindow(scan[s].target_ix, current_pair(s).target)
                   /\ scan[s].op >= 2 =>
                          /\ InWindow(scan[s].neighbor_ix, current_pair(s).neighbor)
                          /\ scan[s].neighbor_ix # scan[s].target_ix
    /\ \A i \in 1 .. Len(stores) : stores[i] <= 1
    /\ mainpc \in {"construct", "built"} =>
           /\ \A i \in 1 .. Len(stores) : stores[i] = 1
           /\ \A v \in 0 .. (Len(offsets) - 2) :
                  atomic_offsets[v + 1] = offsets[v + 2]

\* Both shards placed a neighbour of vertex 0, and the second shard's
\* fetch came first.
C12_Witness ==
    /\ mainpc = "construct"
    /\ shards[1] = <<[target |-> 0, neighbor |-> 1]>>
    /\ shards[2] = <<[target |-> 0, neighbor |-> 2]>>
    /\ atomic_edges[1] = 2

\* No pair of the input joins a vertex to itself.
LoopFree(ss) ==
    \A s \in Shards : \A k \in 1 .. Len(ss[s]) : ss[s][k].target # ss[s][k].neighbor

\* C13: a graph built from an accepted list of edges between distinct
\* vertices, duplicates allowed, has for every vertex exactly the
\* increasing duplicate-free sequence of the vertices adjacent to it in the
\* input as its neighbours, and the windows are symmetric.
C13_RoundTrip ==
    (mainpc = "built" /\ LoopFree(shards)) =>
        \A v \in Vertices(graph) :
            /\ neighbors(graph, v) = Increasing(AdjacentTo(shards, v))
            /\ \A k \in 1 .. degree(graph, v) :
                   LET w == neighbors(graph, v)[k]
                   IN  \E q \in 1 .. degree(graph, w) : neighbors(graph, w)[q] = v

\* C14: after the degree-counting pass and the prefix sum, offsets has one
\* element more than 1 + the largest id, starts at 0, never decreases, and
\* the window of each vertex has one slot per occurrence of the vertex in a
\* pair; the last offset is twice the number of pairs.
C14_Offsets ==
    offsets # << >> =>
        /\ \A i \in IdsOf(shards) : i + 2 <= Len(offsets)
        /\ IdsOf(shards) # {} => (Len(offsets) - 2) \in IdsOf(shards)
        /\ offsets[1] = 0
        /\ \A k \in 1 .. (Len(offsets) - 1) : offsets[k] <= offsets[k + 1]
        /\ \A v \in 0 .. (Len(offsets) - 2) :
               offsets[v + 2] - offsets[v + 1] = Occurrences(shards, NShards, v)
        /\ offsets[Len(offsets)] = 2 * SumLen(shards, NShards)

\* Both shards counted pairs of vertex 0, which has three slots.
C14_Witness ==
    /\ mainpc = "place"
    /\ offsets = <<0, 3, 5, 6>>
    /\ Len(shards[1]) > 0
    /\ Len(shards[2]) > 0

(***************************************************************************)
(* color.rs: a DiscreteSampler on its own, under any sequence of calls.    *)
(*   removed  the elements removed since the last reset (or since new)     *)
(*   drawn    the last call: [op, value, panic, dead], dead when the call  *)
(*            was a remove of an element already dead                      *)
(***************************************************************************)
\* The size n of the domain 0 .. n-1 of sampler s.
domain_size(s) == Cardinality(DOMAIN s.alive)

Called(op, value, panic, dead) ==
    [op |-> op, value |-> value, panic |-> panic, dead |-> dead]

\* remove(x), for x in the domain.
SamplerRemove(x) ==
    /\ mainpc = "sampler"
    /\ x \in DOMAIN sampler.alive
    /\ sampler' = DiscreteSampler_remove(sampler, x)
    /\ asserts_ok' = (asserts_ok /\ DiscreteSampler_remove_assert(sampler, x))
    /\ removed' = removed \cup {x}
    /\ drawn' = Called("remove", x, FALSE, ~sampler.alive[x])
    /\ UNCHANGED <<runVars, cellVars, greedy_run, readVars, mainpc, colors,
                   logger, conflicts, samples_left_this_round,
                   samples_to_sample, workers, accepted, returned>>

\* reset()
SamplerReset ==
    /\ mainpc = "sampler"
    /\ sampler' = DiscreteSampler_reset(sampler)
    /\ removed' = {}
    /\ drawn' = Called("reset", 0, FALSE, FALSE)
    /\ UNCHANGED <<runVars, engineVars, cellVars, greedy_run, readVars>>

\* sample(rng): any index of the alive sequence can be drawn; drawing from
\* an empty range is fatal in the random number generator.
SamplerSample ==
    /\ mainpc = "sampler"
    /\ IF DiscreteSampler_nalive(sampler) = 0
       THEN drawn' = Called("sample", 0, TRUE, FALSE)
       ELSE \E value \in DiscreteSampler_sample(sampler) :
                drawn' = Called("sample", value, FALSE, FALSE)
    /\ UNCHANGED <<runVars, engineVars, cellVars, greedy_run, readVars,
                   sampler, removed>>

SamplerInit ==
    /\ \E n \in 0 .. MaxColors : sampler = DiscreteSampler_new(n)
    /\ removed = {}
    /\ drawn = Called("new", 0, FALSE, FALSE)
    /\ mainpc = "sampler"
    /\ graph = NoGraph
    /\ seed = NoSeed
    /\ RunIdle
    /\ EngineIdle
    /\ CellIdle
    /\ GreedyIdle
    /\ ReadIdle

SamplerNext ==
    \/ \E x \in 0 .. (MaxColors - 1) : SamplerRemove(x)
    \/ SamplerReset
    \/ SamplerSample

SamplerSpec == SamplerInit /\ [][SamplerNext]_vars

\* C15: the alive count plus the number of distinct elements removed since
\* the last reset is the domain size, right after a reset every element is
\* alive, and a remove of an element already dead changes nothing.
C15_AliveCount ==
    /\ [](/\ DiscreteSampler_nalive(sampler) + Cardinality(removed)
                 = domain_size(sampler)
          /\ drawn.op = "reset" =>
                 DiscreteSampler_nalive(sampler) = domain_size(sampler))
    /\ [][(drawn'.op = "remove" /\ drawn'.value \in removed) =>
              (sampler' = sampler /\ removed' = removed)]_vars

\* A remove of an element already dead, with two of three elements dead.
C15_Witness ==
    /\ drawn.op = "remove"
    /\ drawn.dead
    /\ Cardinality(removed) = 2
    /\ DiscreteSampler_nalive(sampler) = 1

\* C16: the alive sequence holds exactly the elements not removed since the
\* last reset, each once; the index of an alive element is its position;
\* the assertion of remove never fails; and every index sample can draw
\* gives an element that is not removed (sample is fatal only when nothing
\* is alive).
C16_SampleAlive ==
    /\ {sampler.alive_set[k] : k \in 1 .. Len(sampler.alive_set)}
           = (DOMAIN sampler.alive) \ removed
    /\ Len(sampler.alive_set) = Cardinality((DOMAIN sampler.alive) \ removed)
    /\ \A i \in DOMAIN sampler.alive :
           /\ sampler.alive[i] <=> i \notin removed
           /\ sampler.alive[i] => sampler.alive_set[sampler.index[i] + 1] = i
    /\ asserts_ok
    /\ DiscreteSampler_sample(sampler) \cap removed = {}
    /\ drawn.op = "sample" =>
           IF drawn.panic
           THEN removed = DOMAIN sampler.alive
           ELSE drawn.value \notin removed

\* After element 0 was removed the last element took its slot, and sample
\* drew it from there.
C16_Witness ==
    /\ drawn = Called("sample", 2, FALSE, FALSE)
    /\ removed = {0}
    /\ sampler.alive_set = <<2, 1>>

(***************************************************************************)
(* atomic_rw.rs: WriteGuard::drop and into_inner on every value of the     *)
(* backing word.  The word starts with any payload and any lock fields;    *)
(* thread 1 is idle or, when the write bit is set, holds the write guard   *)
(* taken at the word's payload.  Lock fields no thread of the model holds  *)
(* stand for leaked guards and for lock calls of other threads in flight.  *)
(***************************************************************************)
WordInit ==
    /\ cell \in 0 .. (WordMod - 1)
    /\ \E held \in BOOLEAN :
           /\ held => WriteBit(cell) > 0
           /\ threads = [t \in Threads |->
                  IF held /\ t = 1
                  THEN [IdleThread EXCEPT
                            !.pc = "write_guard",
                            !.guard = WriteGuard_from(from_payload(cell))]
                  ELSE IdleThread]
    /\ committed = [value |-> from_payload(cell), written |-> FALSE,
                    previous |-> from_payload(cell)]
    /\ unwrapped = << >>
    /\ mainpc = "cell"
    /\ graph = NoGraph
    /\ seed = NoSeed
    /\ RunIdle
    /\ EngineIdle
    /\ UnitIdle

WordNext ==
    \/ \E t \in Threads : CellWrite(t) \/ CellDropWrite(t)
    \/ CellIntoInner

WordSpec == WordInit /\ [][WordNext]_vars

\* C17: into_inner is fatal exactly when the write flag of the word is set
\* or its reader count is not zero, and returns the payload otherwise.
C17_IntoInnerFatal ==
    unwrapped # << >> =>
        /\ unwrapped[1].panic <=> (WriteBit(cell) > 0 \/ ReadSem(cell) > 0)
        /\ ~unwrapped[1].panic => unwrapped[1].value = from_payload(cell)

\* into_inner was fatal on a word whose only lock field is a reader count.
C17_Witness ==
    /\ unwrapped # << >>
    /\ unwrapped[1].panic
    /\ WriteBit(cell) = 0
    /\ ReadSem(cell) > 0

\* C18: the release of a write guard leaves the payload at the guard's new
\* value, the write flag clear and the reader count as it was, whatever the
\* previous and new payloads and the reader count are.
C18_ReleaseFields ==
    [][\A t \in Threads :
           (threads[t].pc = "write_guard" /\ threads'[t].pc = "idle") =>
               /\ from_payload(cell') = threads[t].guard.current
               /\ WriteBit(cell') = 0
               /\ ReadSem(cell') = ReadSem(cell)]_vars

\* A guard that lowered the largest payload to 0 was released while the
\* reader count had every bit set.
C18_Witness ==
    /\ committed.written
    /\ committed.previous = U32_MAX
    /\ committed.value = 0
    /\ from_payload(cell) = 0
    /\ ReadSem(cell) = READ_SEM_MASK
    /\ \A t \in Threads : threads[t].pc = "idle"

(***************************************************************************)
(* Properties of the start of glauber.                                     *)
(***************************************************************************)
\* No worker has made an update attempt, and no cell exists.
NothingAttempted ==
    /\ colors = << >>
    /\ accepted = 0
    /\ conflicts = 0
    /\ \A w \in Workers : workers[w].pc = "idle" /\ workers[w].lock_ops = 0

\* C19: glauber is fatal whenever the budget is below the seed's colour
\* count, before any update attempt and before the logger's files are
\* created; with a budget of at least the seed's colour count the check
\* passes and the run is never fatal.
C19_BudgetFatal ==
    /\ seed.ncolors > ncolors =>
           /\ mainpc \in {"start", "panic"}
           /\ ~logger.created
           /\ logger.color_file = << >>
           /\ logger.time_file = << >>
           /\ NothingAttempted
    /\ seed.ncolors <= ncolors =>
           /\ mainpc # "panic"
           /\ mainpc # "start" => logger.created

\* glauber was fatal on the triangle, whose seed has 3 colours, with a
\* budget of 2.
C19_Witness ==
    /\ mainpc = "panic"
    /\ graph = TriangleGraph
    /\ seed.ncolors = 3
    /\ ncolors = 2

(***************************************************************************)
(* graph.rs: Graph::new on its own, on every pair of vectors whose windows *)
(* tile the neighbour array and hold vertex ids (the slices and indexings  *)
(* of the assertion are in bounds), in a debug and in a release build.     *)
(***************************************************************************)
WellShaped(most, slots) ==
    UNION {UNION {{[offsets |-> offs, neighbors |-> nbrs] :
                       nbrs \in [1 .. offs[n + 1] -> 0 .. (n - 1)]} :
                      offs \in {o \in [1 .. (n + 1) -> 0 .. slots] :
                                   /\ o[1] = 0
                                   /\ \A k \in 1 .. n : o[k] <= o[k + 1]}} :
               n \in 0 .. most}

GraphNewInit ==
    /\ \E g \in WellShaped(MaxVertices, MaxSlots) :
           /\ offsets = g.offsets
           /\ edges = g.neighbors
    /\ debug \in BOOLEAN
    /\ shards = << >>
    /\ scan = << >>
    /\ atomic_offsets = << >>
    /\ atomic_edges = << >>
    /\ stores = << >>
    /\ mainpc = "construct"
    /\ graph = NoGraph
    /\ seed = NoSeed
    /\ RunIdle
    /\ EngineIdle
    /\ CellIdle
    /\ GreedyIdle
    /\ SamplerIdle

GraphNewNext == GraphNew

GraphNewSpec == GraphNewInit /\ [][GraphNewNext]_vars

\* The invariant of the data model: every window is strictly increasing,
\* and w is in the window of v only if v is in the window of w.
DataModelInvariant(offs, nbrs) ==
    \A v \in 0 .. (Len(offs) - 2) :
        /\ \A k \in (offs[v + 1] + 1) .. (offs[v + 2] - 1) : nbrs[k] < nbrs[k + 1]
        /\ \A k \in (offs[v + 1] + 1) .. offs[v + 2] :
               LET w == nbrs[k]
               IN  \E q \in (offs[w + 1] + 1) .. offs[w + 2] : nbrs[q] = v

\* C20: in a debug build Graph::new is fatal exactly when the data-model
\* invariant is violated; every pair that satisfies it is accepted.
C20_FatalIffInvariant ==
    (debug /\ mainpc \in {"built", "panic"}) =>
        (mainpc = "panic" <=> ~DataModelInvariant(offsets, edges))

(***************************************************************************)
(* The logged snapshots of a run.                                          *)
(***************************************************************************)
\* C21: the first snapshot is the seed colouring with step count 0, the
\* snapshot after round k has step count min(k * frequency, nsamples), the
\* step counts are strictly increasing, the timing file has one line per
\* snapshot, and a finished run has 1 + ceil(nsamples / frequency)
\* snapshots, the last with step count nsamples.
C21_Snapshots ==
    logger.created =>
        LET n == Len(logger.color_file)
        IN  /\ n >= 1
            /\ logger.color_file[1] =
                   [steps |-> 0,
                    colors |-> [v \in Vertices(graph) |-> seed.colors[v + 1]]]
            /\ \A k \in 0 .. n - 1 :
                   logger.color_file[k + 1].steps = Min(k * frequency, nsamples)
            /\ \A i \in 1 .. n - 1 :
                   logger.color_file[i].steps < logger.color_file[i + 1].steps
            /\ Len(logger.time_file) = n
            /\ Len(logger.times_history) = n
            /\ logger.steps_history = [i \in 1 .. n |-> logger.color_file[i].steps]
            /\ mainpc = "loop" =>
                   logger.color_file[n].colors =
                       [v \in Vertices(graph) |-> color_of(v)]
            /\ mainpc = "returned" =>
                   /\ logger.color_file[n].steps = nsamples
                   /\ n = 1 + (nsamples + frequency - 1) \div frequency

\* A run of three samples at frequency two has returned: its snapshots have
\* the step counts 0, 2 and 3, the last round cut short.
C21_Witness ==
    /\ mainpc = "returned"
    /\ nsamples = 3
    /\ frequency = 2
    /\ Len(logger.color_file) = 3
    /\ logger.color_file[3].steps = 3
    /\ Len(logger.time_file) = 3

(***************************************************************************)
(* Update attempts on a vertex without neighbours.                         *)
(***************************************************************************)
\* C22 as claimed: no attempt that selects a vertex without neighbours is
\* counted as a conflict.  A retry that starts after a lock was taken is on
\* the vertex the worker recorded; a retry that starts at once is on a
\* vertex whose write flag was found set, so some vertex with neighbours
\* has it set.
C22_IsolatedNoConflict ==
    [][\A w \in Workers :
           RetryStarts(w) =>
               IF workers[w].pc = "attempt"
               THEN \E v \in Vertices(graph) :
                        degree(graph, v) > 0 /\ WriteBit(colors[v]) > 0
               ELSE degree(graph, workers[w].v) > 0]_vars

\* C22, amended: the cell of a vertex without neighbours never has a
\* reader, its write flag is set exactly while a worker holds its write
\* guard, and an attempt that has taken that guard always succeeds.  An
\* attempt that fails at once found the write flag of its vertex set; every
\* other failure is on a vertex with neighbours.
C22_IsolatedWriteConflictOnly ==
    [][/\ colors' # << >> =>
              \A v \in Vertices(graph) :
                  degree(graph, v) = 0 =>
                      /\ ReadSem(colors'[v]) = 0
                      /\ (WriteBit(colors'[v]) > 0) =
                             (\E o \in Workers :
                                  workers'[o].holds_write /\ workers'[o].v = v)
                      /\ \A w \in Workers :
                             (/\ workers'[w].v = v
                              /\ workers'[w].pc \in {"write_undo", "read_lock",
                                                     "read_undo", "release"}) =>
                                 /\ workers'[w].pc = "release"
                                 /\ workers'[w].successful
                                 /\ workers'[w].sampled
                                 /\ workers'[w].neighbor_guards = << >>
       /\ \A w \in Workers :
              RetryStarts(w) =>
                  IF workers[w].pc = "attempt"
                  THEN \E v \in Vertices(graph) :
                           /\ WriteBit(colors[v]) > 0
                           /\ \E o \in Workers \ {w} : OwesWrite(workers[o], v)
                  ELSE degree(graph, workers[w].v) > 0]_vars

\* Both workers are in their first unit of the first round.  One holds the
\* write guard of the isolated vertex 2 in its first attempt; the other has
\* counted a conflict, which only the selection of vertex 2 can have caused.
C22_Witness ==
    \E w, o \in Workers :
        /\ graph = IsolatedGraph
        /\ accepted = 0
        /\ workers[o].pc = "release"
        /\ workers[o].v = 2
        /\ workers[o].holds_write
        /\ workers[o].conflicts = 0
        /\ workers[w].pc = "attempt"
        /\ workers[w].conflicts = 1
        /\ HasUnit(w)

(***************************************************************************)
(* greedy on a star graph.                                                 *)
(***************************************************************************)
\* The vertices of g joined to every other vertex while every other vertex
\* has this one neighbour only: the centre of a star of at least one leaf.
\* In the star of one leaf both vertices qualify.
StarCenters(g) ==
    {c \in Vertices(g) :
        /\ nvertices(g) >= 2
        /\ degree(g, c) = nvertices(g) - 1
        /\ \A v \in Vertices(g) \ {c} : neighbors(g, v) = <<c>>}

\* The vertices greedy has coloured so far.
Colored == {v \in Vertices(graph) : greedy_run.colors[v + 1] # NO_COLOR}

\* C23 as claimed: on a star graph greedy processes the leaves before the
\* centre, and the seed colouring uses exactly 2 colours.
C23_StarLeavesFirst ==
    (mainpc \in {"greedy_loop", "greedy_done"} /\ StarCenters(graph) # {}) =>
        /\ \E c \in StarCenters(graph) :
               c \in Colored => Colored = Vertices(graph)
        /\ mainpc = "greedy_done" => seed.ncolors = 2

\* C23, amended: on a star graph the seed colouring uses exactly 2 colours;
\* with two or more leaves the centre is processed first and gets colour 0,
\* and every leaf gets colour 1; with one leaf the two vertices get 0 and 1
\* in the order the sort left them.
C23_StarTwoColors ==
    (mainpc \in {"greedy_loop", "greedy_done"} /\ StarCenters(graph) # {}) =>
        /\ nvertices(graph) >= 3 =>
               \A c \in StarCenters(graph) :
                   /\ Colored # {} => c \in Colored
                   /\ \A v \in Colored :
                          greedy_run.colors[v + 1] = (IF v = c THEN 0 ELSE 1)
        /\ nvertices(graph) = 2 =>
               /\ Colored # {} =>
                      greedy_run.vertices[2] \in Colored
                          /\ greedy_run.colors[greedy_run.vertices[2] + 1] = 0
               /\ greedy_run.vertices[1] \in Colored =>
                      greedy_run.colors[greedy_run.vertices[1] + 1] = 1
        /\ mainpc = "greedy_done" =>
               /\ seed.ncolors = 2
               /\ {seed.colors[v + 1] : v \in Vertices(graph)} = {0, 1}

\* greedy has returned on the star with centre 1 and leaves 0 and 2: the
\* centre has colour 0 and both leaves have colour 1.
C23_Witness ==
    /\ mainpc = "greedy_done"
    /\ StarCenters(graph) = {1}
    /\ nvertices(graph) = 3
    /\ seed = [ncolors |-> 2, colors |-> <<1, 0, 1>>]

(***************************************************************************)
(* try_mcmc_update: the return from inside the neighbour loop.             *)
(***************************************************************************)
\* try_mcmc_update has returned Some(()) from inside the neighbour loop,
\* without sampling.
EarlyExit(wr) == wr.pc = "release" /\ wr.successful /\ ~wr.sampled

\* The colours the viable set would hold after the colour of every
\* neighbour of v in the cells `cells` is removed from the whole domain.
FullScanViable(cells, v) ==
    (0 .. (ncolors - 1))
        \ {from_payload(cells[neighbors(graph, v)[k]]) :
               k \in 1 .. degree(graph, v)}

\* C24: when try_mcmc_update has returned from inside the neighbour loop
\* and still holds the write guard of v, the one colour left in the viable
\* set is the colour of v, no neighbour of v holds it, and it is the whole
\* viable set a scan of all the neighbours would leave; the guard holds no
\* new value, its drop leaves the payload of v as it was, and the attempt
\* ends as one accepted sample without a conflict.
C24_EarlyExit ==
    [][\A w \in Workers :
           /\ (EarlyExit(workers'[w]) /\ workers'[w].holds_write) =>
                  LET wr == workers'[w]
                      c == from_payload(colors'[wr.v])
                  IN  /\ wr.viable_colors.alive_set = <<c>>
                      /\ wr.guard = WriteGuard_from(c)
                      /\ \A k \in 1 .. degree(graph, wr.v) :
                             from_payload(colors'[neighbors(graph, wr.v)[k]]) # c
                      /\ FullScanViable(colors', wr.v) = {c}
           /\ (EarlyExit(workers[w]) /\ workers[w].holds_write
                   /\ ~workers'[w].holds_write) =>
                  from_payload(colors'[workers[w].v])
                      = from_payload(colors[workers[w].v])
           /\ (EarlyExit(workers[w]) /\ ~EarlyExit(workers'[w])) =>
                  /\ workers'[w].pc = "claim"
                  /\ accepted' = accepted + 1
                  /\ workers'[w].conflicts = workers[w].conflicts]_vars

\* With two colours, the attempt on the middle vertex of the path has
\* returned after the first of its two neighbours was scanned, and holds
\* the write guard and one read guard.
C24_Witness ==
    \E w \in Workers :
        /\ EarlyExit(workers[w])
        /\ workers[w].holds_write
        /\ degree(graph, workers[w].v) = 2
        /\ Len(workers[w].neighbor_guards) = 1

(***************************************************************************)
(* greedy: the colour chosen in one iteration of the main loop.            *)
(***************************************************************************)
\* The colours of the neighbours of `vertex` that are coloured in `cols`,
\* the colors vector of greedy.
HeldByColored(cols, vertex) ==
    {cols[neighbors(graph, vertex)[k] + 1] :
         k \in 1 .. degree(graph, vertex)} \ {NO_COLOR}

\* C25: the colour an iteration of greedy gives its vertex is the smallest
\* colour no coloured neighbour holds; the palette grows, by one, exactly
\* when every colour of the palette is held by a coloured neighbour;
\* whichever of the two resets the iteration ends with, no mark is left;
\* and the colour count returned is the largest colour given plus one.
C25_SmallestFree ==
    [][/\ (mainpc = "greedy_loop" /\ greedy_run'.next < greedy_run.next) =>
              LET vertex == greedy_run.vertices[greedy_run.next]
                  held == HeldByColored(greedy_run.colors, vertex)
                  palette == Len(greedy_run.adjacent_colors)
                  chosen == greedy_run'.colors[vertex + 1]
                  full == \A c \in 0 .. (palette - 1) : c \in held
              IN  /\ greedy_run.colors[vertex + 1] = NO_COLOR
                  /\ chosen \notin held
                  /\ \A d \in 0 .. (chosen - 1) : d \in held
                  /\ Len(greedy_run'.adjacent_colors)
                         = (IF full THEN palette + 1 ELSE palette)
                  /\ full <=> chosen = palette
                  /\ \A c \in 1 .. Len(greedy_run'.adjacent_colors) :
                         ~greedy_run'.adjacent_colors[c]
                  /\ \A v \in Vertices(graph) \ {vertex} :
                         greedy_run'.colors[v + 1] = greedy_run.colors[v + 1]
       /\ mainpc' = "greedy_done" =>
              /\ \A v \in Vertices(graph) : seed'.colors[v + 1] < seed'.ncolors
              /\ IF nvertices(graph) = 0
                 THEN seed'.ncolors = 0
                 ELSE \E v \in Vertices(graph) :
                          seed'.colors[v + 1] + 1 = seed'.ncolors]_vars

\* greedy has coloured the path 0-1-2: the middle vertex first (colour 0,
\* reset by unmarking the neighbours' colours), then a leaf that found the
\* palette full and grew it (colour 1, reset by clearing the array), then
\* the other leaf, given colour 1 without growing the palette.
C25_Witness ==
    /\ mainpc = "greedy_loop"
    /\ graph = PathGraph
    /\ greedy_run.next = 0
    /\ greedy_run.colors = <<1, 0, 1>>
    /\ Len(greedy_run.adjacent_colors) = 2

(***************************************************************************)
(* The lock fields of the one cell.                                        *)
(***************************************************************************)
\* The threads between the fetch_or of a failed try_write_lock and its undo,
\* and between the fetch_add of a failed try_read_lock and its undo.
WriteUndos == {t \in Threads : threads[t].pc = "write_undo"}
ReadUndos == {t \in Threads : threads[t].pc = "read_undo"}

\* C26: the write flag is set exactly when a write guard is outstanding or
\* a failed try_write_lock is between its set and its undo, never both; the
\* undo therefore clears no guard's flag; and when a write guard is dropped
\* the word fetched has the flag set and the payload the guard was given
\* (the debug assertions of the drop hold).
C26_WriteFlag ==
    [][/\ (WriteBit(cell') > 0) =
              (\E t \in Threads :
                   threads'[t].pc \in {"write_guard", "write_undo"})
       /\ Cardinality({t \in Threads :
                           threads'[t].pc \in {"write_guard", "write_undo"}}) <= 1
       /\ \A t \in Threads :
              /\ (threads[t].pc = "write_undo" /\ threads'[t].pc = "idle") =>
                     /\ WriteGuards = {}
                     /\ WriteBit(cell) > 0
                     /\ WriteBit(cell') = 0
              /\ (threads[t].pc = "write_guard" /\ threads'[t].pc = "idle") =>
                     /\ WriteGuard_drop_asserts(cell, threads[t].guard)
                     /\ WriteBit(cell') = 0]_vars

\* The write flag is set although no guard is outstanding: the readers that
\* made a try_write_lock fail have left and its undo is still to come; a
\* write guard was released earlier.
C26_Witness ==
    /\ WriteBit(cell) > 0
    /\ WriteUndos # {}
    /\ ReadSem(cell) = 0
    /\ committed.written

\* C27: the reader count equals the number of outstanding read guards plus
\* the number of failed try_read_lock calls between their count-up and its
\* undo; every decrement finds a count above zero (the debug assertions of
\* the two decrements hold) and takes one from it; with no guard and no
\* call left the count is 0.
C27_ReaderCount ==
    [][/\ ReadSem(cell') =
              Cardinality({t \in Threads :
                               threads'[t].pc \in {"read_guard", "read_undo"}})
       /\ (\A t \in Threads : threads'[t].pc = "idle") => ReadSem(cell') = 0
       /\ \A t \in Threads :
              (threads[t].pc \in {"read_guard", "read_undo"}
                   /\ threads'[t].pc = "idle") =>
                  /\ ReadGuard_drop_asserts(cell)
                  /\ ReadSem(cell') = ReadSem(cell) - 1
                  /\ WriteBit(cell') = WriteBit(cell)
                  /\ from_payload(cell') = from_payload(cell)]_vars

\* The count is 2: one read guard is outstanding and one failed
\* try_read_lock, which found the write flag of a failing try_write_lock
\* set, has counted up and not yet undone it.
C27_Witness ==
    /\ ReadSem(cell) = 2
    /\ Cardinality(ReadGuards) = 1
    /\ Cardinality(ReadUndos) = 1

(***************************************************************************)
(* The guards a worker holds.                                              *)
(***************************************************************************)
\* The neighbours of vertex v, as a set.
NeighborSet(v) == {neighbors(graph, v)[k] : k \in 1 .. degree(graph, v)}

\* The workers whose write guard, or write flag not yet undone, is on v.
WriteOwners(v) == {w \in Workers : OwesWrite(workers[w], v)}

\* C28: the write flag of a cell is owed to exactly one worker and a worker
\* holds one write guard at most, that of the vertex v of its attempt; the
\* reader count of a cell is the number of read guards and count-ups the
\* workers hold on it; every read guard of a worker is on a neighbour of
\* its v; a worker holds read guards only with the write guard of v, or
\* after it while dropping them at the end of the attempt; outside an
\* attempt it holds nothing.
C28_LockScope ==
    colors # << >> =>
        /\ \A v \in Vertices(graph) :
               /\ (WriteBit(colors[v]) > 0) = (WriteOwners(v) # {})
               /\ Cardinality(WriteOwners(v)) <= 1
               /\ ReadSem(colors[v]) = SumOwedReads(workers, nthreads, v)
        /\ \A w \in Workers :
               LET wr == workers[w]
               IN  /\ \A i \in 1 .. Len(wr.neighbor_guards) :
                          wr.neighbor_guards[i] \in NeighborSet(wr.v)
                   /\ Len(wr.neighbor_guards) <= degree(graph, wr.v)
                   /\ wr.neighbor_guards # << >> =>
                          \/ wr.holds_write
                          \/ /\ wr.pc = "release"
                             /\ wr.releases =
                                    [i \in 1 .. Len(wr.neighbor_guards) |-> "read"]
                   /\ wr.pc \in {"read_lock", "read_undo"} => wr.holds_write
                   /\ wr.pc \in {"idle", "claim", "attempt", "write_undo", "done"} =>
                          ~wr.holds_write /\ wr.neighbor_guards = << >>

\* An attempt on a vertex with two neighbours has failed at the second: the
\* write guard is dropped and the read guard on the first neighbour is
\* still to be dropped.
C28_Witness ==
    \E w \in Workers :
        /\ workers[w].pc = "release"
        /\ ~workers[w].successful
        /\ ~workers[w].holds_write
        /\ degree(graph, workers[w].v) = 2
        /\ Len(workers[w].neighbor_guards) = 1

(***************************************************************************)
(* The range of the colours.                                               *)
(***************************************************************************)
\* The colours of the budget.
Palette == 0 .. (ncolors - 1)

\* C29: once the budget check has passed, the seed colours are below the
\* seed colour count, which is within the budget; the payload of every cell
\* is a colour of the budget, in every state, and so is every colour
\* logged, buffered in a write guard or returned; the viable set of every
\* worker has the budget as its domain, and every colour handed to its
\* remove is inside that domain.
C29_ColorRange ==
    [][colors' # << >> =>
           /\ seed.ncolors <= ncolors
           /\ \A v \in Vertices(graph) :
                  /\ seed.colors[v + 1] < seed.ncolors
                  /\ from_payload(colors'[v]) \in Palette
           /\ \A i \in 1 .. Len(logger'.color_file) :
                  \A v \in Vertices(graph) :
                      logger'.color_file[i].colors[v] \in Palette
           /\ mainpc' = "returned" =>
                  \A v \in Vertices(graph) : returned'[v] \in Palette
           /\ \A w \in Workers :
                  /\ DOMAIN workers'[w].viable_colors.alive = Palette
                  /\ workers'[w].holds_write =>
                         /\ workers'[w].guard.previous \in Palette
                         /\ workers'[w].guard.current \in Palette
                  /\ (colors # << >> /\ workers[w].pc = "read_lock"
                          /\ workers'[w] # workers[w]
                          /\ workers'[w].pc # "read_undo") =>
                         LET n == neighbors(graph, workers[w].v)[workers[w].k]
                             c == from_payload(colors[n])
                         IN  /\ c \in DOMAIN workers[w].viable_colors.alive
                             /\ ~workers'[w].viable_colors.alive[c]]_vars

\* A run with a budget above the seed colour count has returned a vertex
\* with neighbours in the last colour of the budget, a colour the seed does
\* not use.
C29_Witness ==
    /\ mainpc = "returned"
    /\ seed.ncolors < ncolors
    /\ \E v \in Vertices(graph) :
           /\ degree(graph, v) > 0
           /\ returned[v] = ncolors - 1

(***************************************************************************)
(* The sampling step of try_mcmc_update, on the graphs of the model and on *)
(* the star of three leaves, whose centre has as many neighbours as the    *)
(* largest budget has colours.                                             *)
(***************************************************************************)
\* The star with centre 0 and leaves 1, 2, 3.
StarGraph == [offsets |-> <<0, 3, 4, 5, 6>>, neighbors |-> <<1, 2, 3, 0, 0, 0>>]

StarInit == InitOn({StarGraph}, MaxStarSamples)

StarSpec == StarInit /\ [][Next]_vars

\* The step of worker w reaches viable_colors.sample.
Samples(w) == ~workers[w].sampled /\ workers'[w].sampled

\* C30: while a worker scans the neighbours of v the colour of v is alive
\* in its viable set and the worker can go on; the viable set an attempt
\* samples from holds the colour of v, so it is never empty, and the colour
\* drawn is alive in it.
C30_ViableNonEmpty ==
    /\ [](\A w \in Workers :
              /\ workers[w].pc \in {"read_lock", "read_undo"} =>
                     LET c == color_of(workers[w].v)
                     IN  /\ workers[w].guard.previous = c
                         /\ workers[w].viable_colors.alive[c]
                         /\ DiscreteSampler_nalive(workers[w].viable_colors) >= 2
              /\ workers[w].pc = "read_lock" => ENABLED TryReadLock(w)
              /\ workers[w].pc = "attempt" => ENABLED TryWriteLock(w))
    /\ [][\A w \in Workers :
              Samples(w) =>
                  LET wr == workers'[w]
                  IN  /\ DiscreteSampler_nalive(wr.viable_colors) >= 1
                      /\ wr.guard.previous = from_payload(colors'[wr.v])
                      /\ wr.viable_colors.alive[wr.guard.previous]
                      /\ wr.viable_colors.alive[wr.guard.current]
                      /\ seed.ncolors <= ncolors]_vars

\* With a budget of three colours an attempt on the centre of the star, a
\* vertex of three neighbours, has scanned them all and sampled a colour
\* other than the one the centre had.
C30_Witness ==
    \E w \in Workers :
        /\ workers[w].pc = "release"
        /\ workers[w].sampled
        /\ workers[w].holds_write
        /\ ncolors <= degree(graph, workers[w].v)
        /\ Len(workers[w].neighbor_guards) = degree(graph, workers[w].v)
        /\ workers[w].guard.current # workers[w].guard.previous


(***************************************************************************)
(* A pool of one thread: the only worker meets no other lock holder.       *)
(***************************************************************************)
\* The step is the fetch_or of worker w's try_write_lock.
WriteLockStep(w) == workers[w].pc = "attempt" /\ workers'[w] # workers[w]

\* The step is the fetch_add of worker w's try_read_lock.
ReadLockStep(w) == workers[w].pc = "read_lock" /\ workers'[w] # workers[w]

\* C31: with a pool of one thread every lock call finds its cell free (no
\* write flag, and for try_write_lock no reader either) and returns a guard
\* with its one atomic operation; no attempt fails, so no retry starts and
\* every attempt is an accepted sample; the worker's and glauber's conflict
\* counters stay 0, and the run returns after exactly nsamples attempts.
C31_SoloNoConflict ==
    /\ [](nthreads = 1 =>
            /\ conflicts = 0
            /\ accepted <= nsamples
            /\ \A w \in Workers :
                   /\ workers[w].conflicts = 0
                   /\ workers[w].pc \notin {"write_undo", "read_undo"}
                   /\ workers[w].pc = "release" => workers[w].successful
            /\ mainpc = "returned" => accepted = nsamples)
    /\ [][nthreads = 1 =>
            \A w \in Workers :
                /\ ~RetryStarts(w)
                /\ WriteLockStep(w) =>
                       /\ WriteBit(colors[workers'[w].v]) = 0
                       /\ ReadSem(colors[workers'[w].v]) = 0
                       /\ workers'[w].holds_write
                       /\ workers'[w].lock_ops = 1
                /\ ReadLockStep(w) =>
                       LET n == neighbors(graph, workers[w].v)[workers[w].k]
                       IN  /\ WriteBit(colors[n]) = 0
                           /\ ReadSem(colors[n]) = 0
                           /\ workers'[w].neighbor_guards =
                                  Append(workers[w].neighbor_guards, n)
                           /\ workers'[w].lock_ops = 1]_vars

\* A run of one thread on the triangle has returned after the largest number
\* of samples, every one of them read-locking a neighbour, with no conflict.
C31_Witness ==
    /\ nthreads = 1
    /\ graph = TriangleGraph
    /\ nsamples = MaxSamples
    /\ mainpc = "returned"
    /\ accepted = nsamples
    /\ conflicts = 0
    /\ Len(logger.steps_history) > 2

(***************************************************************************)
(* The round loop on every frequency a usize can hold, 0 included, under   *)
(* fair scheduling of glauber's thread and of every thread of the pool.    *)
(***************************************************************************)
LoopInit == InitWith(Graphs, MaxFairSamples, 0 .. MaxFrequency)

LoopSpec ==
    /\ LoopInit
    /\ [][Next]_vars
    /\ WF_vars(MainStep)
    /\ \A w \in 1 .. NWorkers : WF_vars(w \in Workers /\ WorkerStep(w))

\* glauber is called with one thread and a budget the seed colouring fits.
SoloRun == nthreads = 1 /\ budget_assert(seed.ncolors, ncolors)

\* C32 as claimed: with one thread the round loop ends, after exactly
\* nsamples accepted samples, whatever the sample count and the frequency.
C32_LoopTerminates ==
    SoloRun => <>(mainpc = "returned" /\ accepted = nsamples)

\* A round of size 0 has ended with samples still to draw: the step count
\* has not moved and the loop test holds again.
C32_EmptyRound ==
    /\ nthreads = 1
    /\ frequency = 0
    /\ mainpc = "loop"
    /\ logger.steps < nsamples
    /\ Len(logger.steps_history) = MaxLines
    /\ accepted = 0
=============================================================================
